---------------------------- MODULE Spec2Model ----------------------------
(***************************************************************************)
(* Model of the court-judgment ingestion pipeline: the forward pass        *)
(* (PDFProcessor.process_batch), the stores it writes (Cosmos DB metadata  *)
(* container, Azure Search index), chunk identity, list sharding and the   *)
(* reconciliation pass (PDFProcessingPipeline.index_from_cosmos).          *)
(*                                                                         *)
(* Strings are sequences of one-character tokens, so that character-level  *)
(* operations (the identifier sanitiser) are computed and not assumed.     *)
(* A document text is an interval [src, lo, hi] of the characters of the   *)
(* source it was extracted from; slicing and splitting act on intervals.   *)
(***************************************************************************)
EXTENDS Integers, Sequences, FiniteSets, TLC

VARIABLES
    \* ---- shared stores and clock
    cosmos,              \* Cosmos container: set of stored items, key "id"
    index,               \* search index: set of search documents, key "id"
    now,                 \* wall clock (time.time(), datetime.utcnow())
    work,                \* number of work items started so far (model bound)
    active,              \* the workers (shards, servers) that take part
    \* ---- per worker: one process_batch invocation at a time
    pc,                  \* position of the worker in process_batch
    runs,                \* number of process_batch invocations started
    mode,                \* the mode argument
    pdfs,                \* pdfs_to_process (the truncated work list)
    idx,                 \* loop position in pdfs_to_process (1-based)
    existing_in_cosmos,  \* result of the batch existence check
    indexed_in_search,   \* result of the batch index check
    results,             \* the counters returned by process_batch
    cur,                 \* locals of the item being processed
    last,                \* summary of the item handled last (history)
    outs,                \* collaborator outputs of each item of this run (history)
    truth,               \* what the stores held at the batch check (history)
    hist,                \* per finished run: its arguments, outputs, counters and the stores it left (history)
    \* ---- sharding (divide_list)
    items, total_servers, shards,
    \* ---- the existence checks of CosmosStorage, on long lists
    ex,
    \* ---- the reconciliation pass (index_from_cosmos)
    recon,
    \* ---- one logical request made through a retrying wrapper
    rt,
    \* ---- embedding generation for one list of chunks
    em,
    \* ---- one upload_chunks call
    up,
    \* ---- one get_pending_documents call
    pd,
    \* ---- interleaved slices of the reconciliation pass
    strides,
    \* ---- one call of a gate or of a chunker
    gt,
    \* ---- several servers running index_from_cosmos against the same stores
    sv

batchVars == <<cosmos, index, now, work, active, pc, runs, mode, pdfs, idx,
               existing_in_cosmos, indexed_in_search, results, cur, last, outs, truth, hist>>
divVars == <<items, total_servers, shards>>
sideVars == <<divVars, ex, recon, rt, em, up, pd, strides, gt, sv>>
vars == <<batchVars, sideVars>>

-----------------------------------------------------------------------------
(* Bounds of the model *)

MaxItems == 2        \* longest work list
MaxRuns == 2         \* process_batch invocations per worker
MaxWork == 2         \* work items started over all workers and runs
MaxListLen == 4      \* longest list handed to divide_list
MaxServers == 3      \* largest total_servers handed to divide_list
MaxUrls == 101       \* longest list handed to the existence checks
MaxChunks == 12      \* longest chunk list handed to the embedding generator
MaxDocs == 51        \* longest chunk list handed to upload_chunks
MaxPending == 3      \* document records in the container of get_pending_documents

(* Program constants *)

CHUNK_SIZE == 2500
CHUNK_OVERLAP == 200
TEXT_SAMPLE_LEN == 1000
EXISTS_QUERY_LIMIT == 100

-----------------------------------------------------------------------------
(* Generic helpers *)

Min(a, b) == IF a < b THEN a ELSE b

Max(a, b) == IF a > b THEN a ELSE b

\* Python's seq[:n] for n >= 0
Take(s, n) == SubSeq(s, 1, Min(n, Len(s)))

\* Python's seq[a:b] for 0 <= a, 0 <= b (0-based, end exclusive)
Slice(s, a, b) == SubSeq(s, Min(a, Len(s)) + 1, Min(b, Len(s)))

RECURSIVE Concat(_)
Concat(ss) == IF ss = <<>> THEN <<>> ELSE Head(ss) \o Concat(Tail(ss))

Range(s) == {s[i] : i \in DOMAIN s}

SeqsUpTo(S, n) == UNION {[1..k -> S] : k \in 0..n}

-----------------------------------------------------------------------------
(* Strings, documents and texts *)

None == <<"None">>          \* Python's None: a token no string contains
Unknown == <<"Unknown">>    \* the string "Unknown"
EmptyStr == <<>>

NonWordChars == {"/", ".", " "}

\* The corpus: two locators whose sanitised forms coincide.
Urls == {<<"a", "/">>, <<"a", "_">>}

\* len(text) of the text PyMuPDF extracts from each source
SourceLen(src) == IF src = <<"a", "/">> THEN 4000 ELSE 900

FullText(src) == [src |-> src, lo |-> 1, hi |-> SourceLen(src)]

\* "Error extracting text from document." (36 characters), returned as text
ErrorText == [src |-> <<"Error extracting text from document.">>, lo |-> 1, hi |-> 36]

TextLength(text) == text.hi - text.lo + 1

\* Python's text[:n]
TextPrefix(text, n) == [text EXCEPT !.hi = Min(text.hi, text.lo + n - 1)]

\* base64.b64encode / base64.urlsafe_b64encode: injective encodings
b64encode(s) == <<"b64:">> \o s

urlsafe_b64encode(s) == <<"b64u:">> \o s

-----------------------------------------------------------------------------
(* MetadataExtractor *)

ValidDate == <<"2", "0", "2", "0", "-", "0", "5", "-", "0", "1">>

\* Parsed JSON objects the chat model may answer with, for any document:
\* one with every identifying field, one with none of them.
FullResponse ==
    [CaseNumber |-> <<"c", "/", "1">>, CaseName |-> <<"n">>,
     Court |-> <<"h">>, Date |-> ValidDate]

SparseResponse == [Summary |-> <<"s">>]

LlmResponses == {FullResponse, SparseResponse}

\* What one metadata inference yields: a parsed response, or a failure
\* (retries exhausted, no choices, unparsable answer).
LlmFail == [ok |-> FALSE]

LlmOutcomes == {LlmFail} \cup {[ok |-> TRUE, response |-> r] : r \in LlmResponses}

DictGet(d, key) == IF key \in DOMAIN d THEN d[key] ELSE None

_validate_metadata(response, text, t) ==
    [CaseNumber |-> DictGet(response, "CaseNumber"),
     CaseName |-> DictGet(response, "CaseName"),
     Court |-> DictGet(response, "Court"),
     Date |-> DictGet(response, "Date"),
     text_length |-> TextLength(text),
     processing_timestamp |-> t,
     error |-> FALSE]

_create_error_metadata(text, t) ==
    [CaseNumber |-> Unknown,
     CaseName |-> Unknown,
     Court |-> None,
     Date |-> None,
     text_length |-> TextLength(text),
     processing_timestamp |-> t,
     error |-> TRUE]

\* A failure is turned into error metadata, never raised.
extract_metadata(text, llm, t) ==
    IF llm.ok
    THEN _validate_metadata(llm.response, text, t)
    ELSE _create_error_metadata(text, t)

-----------------------------------------------------------------------------
(* DocumentMetadata.is_valid: the metadata gate *)

Digits == {"0", "1", "2", "3", "4", "5", "6", "7", "8", "9"}

Truthy(s) == s # None /\ s # EmptyStr

\* str.strip() leaves a non-empty string
NonBlank(s) == Truthy(s) /\ \E i \in DOMAIN s : s[i] # " "

DigitVal(c) == CHOOSE n \in 0..9 : ToString(n) = c

DaysIn(y, m) ==
    IF m \in {4, 6, 9, 11} THEN 30
    ELSE IF m # 2 THEN 31
    ELSE IF (y % 4 = 0 /\ y % 100 # 0) \/ y % 400 = 0 THEN 29 ELSE 28

\* datetime.strptime(date_str, "%Y-%m-%d") succeeds: four digits of year,
\* then month and day of one or two digits each (the day may also be a space
\* and a digit), naming a date of the calendar.
_is_valid_date(d) ==
    /\ Truthy(d)
    /\ \E ml \in {1, 2}, dl \in {1, 2} :
          /\ Len(d) = 6 + ml + dl
          /\ d[5] = "-" /\ d[6 + ml] = "-"
          /\ \A i \in (1..4) \cup (6..(5 + ml)) \cup {6 + ml + dl} : d[i] \in Digits
          /\ dl = 2 => d[7 + ml] \in Digits \cup {" "}
          /\ LET val(c) == IF c = " " THEN 0 ELSE DigitVal(c)
                 y == 1000 * DigitVal(d[1]) + 100 * DigitVal(d[2])
                      + 10 * DigitVal(d[3]) + DigitVal(d[4])
                 m == IF ml = 1 THEN DigitVal(d[6])
                      ELSE 10 * DigitVal(d[6]) + DigitVal(d[7])
                 dd == IF dl = 1 THEN DigitVal(d[7 + ml])
                       ELSE 10 * val(d[7 + ml]) + DigitVal(d[8 + ml])
             IN y >= 1 /\ m \in 1..12 /\ dd >= 1 /\ dd <= DaysIn(y, m)

is_valid_both_names(md) ==
    /\ NonBlank(md.CaseName) /\ NonBlank(md.CaseNumber)
    /\ NonBlank(md.Court)
    /\ _is_valid_date(md.Date)

is_valid(md) ==
    /\ NonBlank(md.CaseName) \/ NonBlank(md.CaseNumber)
    /\ NonBlank(md.Court)
    /\ _is_valid_date(md.Date)

-----------------------------------------------------------------------------
(* DocumentChunker *)

\* re.sub(r'[^\w\-]', '_', identifier)
Sanitize(s) == [i \in DOMAIN s |-> IF s[i] \in NonWordChars THEN "_" ELSE s[i]]

NoIdentifier == {None, EmptyStr, Unknown}

_get_identifier(metadata, blob_name) ==
    LET id1 == metadata.CaseNumber
        id2 == IF id1 \in NoIdentifier THEN metadata.CaseName ELSE id1
        id3 == IF id2 \in NoIdentifier /\ Truthy(blob_name) THEN blob_name ELSE id2
    IN Sanitize(id3)

\* RecursiveCharacterTextSplitter(chunk_size, chunk_overlap).split_text on a
\* text without separators: windows of chunk_size advancing by
\* chunk_size - chunk_overlap.
RECURSIVE SplitFrom(_, _)
SplitFrom(text, start) ==
    IF start + CHUNK_SIZE - 1 >= text.hi
    THEN << [text EXCEPT !.lo = start] >>
    ELSE << [text EXCEPT !.lo = start, !.hi = start + CHUNK_SIZE - 1] >>
         \o SplitFrom(text, start + CHUNK_SIZE - CHUNK_OVERLAP)

split_text(text) == IF TextLength(text) <= 0 THEN <<>> ELSE SplitFrom(text, text.lo)

\* The decimal form of a chunk ordinal, as one token
OrdinalToken(i) == ToString(i)

chunk_document_one_based(text, metadata, blob_name) ==
    IF TextLength(text) <= 0
    THEN <<>>
    ELSE LET chunks == split_text(text)
             identifier == _get_identifier(metadata, blob_name)
         IN [i \in 1..Len(chunks) |->
                [id |-> urlsafe_b64encode(identifier \o <<"_chunk_", OrdinalToken(i)>>),
                 text |-> chunks[i],
                 chunk_id |-> i,
                 chunk_total |-> Len(chunks),
                 document_id |-> identifier,
                 vector |-> "none",
                 of |-> blob_name]]

\* Chunks carry "of", the locator they were cut from: a history field that no
\* modelled operation reads.
chunk_document(text, metadata, blob_name) ==
    IF TextLength(text) <= 0
    THEN <<>>
    ELSE LET chunks == split_text(text)
             identifier == _get_identifier(metadata, blob_name)
         IN [i \in 1..Len(chunks) |->
                [id |-> urlsafe_b64encode(identifier \o <<"_chunk_", OrdinalToken(i - 1)>>),
                 text |-> chunks[i],
                 chunk_id |-> i - 1,
                 chunk_total |-> Len(chunks),
                 document_id |-> identifier,
                 vector |-> "none",
                 of |-> blob_name]]

\* chunk_batch on a one-document list (a metadata record is a non-empty dict)
chunk_batch(doc) ==
    IF doc.success /\ TextLength(doc.text) > 0
    THEN chunk_document(doc.text, doc.metadata, doc.blob_name)
    ELSE <<>>

-----------------------------------------------------------------------------
(* CosmosStorage *)

\* container.upsert_item: insert, or replace the item with the same id
upsert_item_insert_only(container, item) == container \cup {item}

upsert_item(container, item) == {d \in container : d.id # item.id} \cup {item}

\* The item store_document builds (lines 86-99)
CosmosItem(blob_name, metadata, text_sample) ==
    [id |-> b64encode(blob_name),
     blob_name |-> blob_name,
     year |-> IF Truthy(metadata.Date) THEN Take(metadata.Date, 4)
              ELSE <<"2", "0", "2", "4">>,
     court |-> IF Truthy(metadata.Court) THEN metadata.Court ELSE <<"HighCourt">>,
     metadata |-> metadata,
     text_sample |-> TextPrefix(text_sample, TEXT_SAMPLE_LEN)]

\* query_ok = FALSE: the query raises, and the method answers set()
documents_exist_batch(blob_names, container, query_ok) ==
    IF blob_names = <<>> \/ ~query_ok
    THEN {}
    ELSE {d.blob_name : d \in {c \in container :
                                 c.blob_name \in Range(Take(blob_names, EXISTS_QUERY_LIMIT))}}

document_exists(blob_name, container, query_ok) ==
    blob_name \in documents_exist_batch(<<blob_name>>, container, query_ok)

get_document_by_blob_name_found(container, blob_name) ==
    [raised |-> FALSE, value |-> {d \in container : d.blob_name = blob_name}]

\* CosmosStorage defines no get_document_by_blob_name: the attribute lookup
\* raises AttributeError before any query is made.
get_document_by_blob_name(container, blob_name) ==
    [raised |-> TRUE, value |-> {}]

-----------------------------------------------------------------------------
(* SearchIndexer *)

\* SearchIndexer defines no documents_indexed_batch: the attribute lookup
\* raises AttributeError.
documents_indexed_batch(blob_urls, idxdocs) ==
    [raised |-> TRUE, value |-> {}]

\* query_ok = FALSE: the search raises, and the method answers False
is_document_indexed(blob_name, idxdocs, query_ok) ==
    query_ok /\ \E d \in idxdocs : d.pdf_id = Sanitize(blob_name)

\* One search document per chunk that has a vector (a chunk without one
\* raises KeyError and is left out).  chunk.get("blob_name") is absent, so
\* pdf_id is the chunk's document_id.  The fields read from lower-case
\* metadata keys are constant defaults and are not modelled.
RECURSIVE _prepare_documents(_, _)
_prepare_documents(chunks, t) ==
    IF chunks = <<>> THEN <<>>
    ELSE LET c == Head(chunks)
             rest == _prepare_documents(Tail(chunks), t)
         IN IF c.vector = "none" THEN rest
            ELSE << [id |-> c.id,
                     content |-> c.text,
                     content_vector |-> c.vector,
                     pdf_id |-> c.document_id,
                     chunk_index |-> c.chunk_id,
                     chunk_total |-> c.chunk_total,
                     created_at |-> t,
                     of |-> c.of] >> \o rest

UPLOAD_BATCH_SIZE == 50
EMBEDDING_BATCH_SIZE == 10

\* 1-based number of the batch that holds position i
BatchOf(i, batch_size) == ((i - 1) \div batch_size) + 1

NumBatches(n, batch_size) == (n + batch_size - 1) \div batch_size

UploadStatuses == {"ok", "rejected", "exhausted"}

\* The documents the index acknowledges: those of batches answered 200 whose
\* per-item status is good.
AckedDocs(docs, status, good) ==
    {docs[i] : i \in {j \in DOMAIN docs :
                        status[BatchOf(j, UPLOAD_BATCH_SIZE)] = "ok" /\ docs[j].id \in good}}

\* "@search.action": "upload": insert, or replace the document with the same id
IndexUpload(idxdocs, docs) ==
    {d \in idxdocs : d.id \notin {x.id : x \in docs}} \cup docs

UploadCountsAckedOnly(docs, status, good) ==
    LET ok == {j \in DOMAIN docs :
                 status[BatchOf(j, UPLOAD_BATCH_SIZE)] = "ok" /\ docs[j].id \in good}
        answered == {j \in DOMAIN docs : status[BatchOf(j, UPLOAD_BATCH_SIZE)] = "ok"}
    IN [succeeded |-> Cardinality(ok), failed |-> Cardinality(answered) - Cardinality(ok)]

\* _upload_in_batches: (succeeded, failed) summed over the batches
UploadCounts(docs, status, good) ==
    LET ok == {j \in DOMAIN docs :
                 status[BatchOf(j, UPLOAD_BATCH_SIZE)] = "ok" /\ docs[j].id \in good}
    IN [succeeded |-> Cardinality(ok), failed |-> Len(docs) - Cardinality(ok)]

-----------------------------------------------------------------------------
(* EmbeddingGenerator *)

\* batch_ok[b]: the batch call of batch b succeeds; single[i]: what the
\* individual fallback call yields for chunk i ("vec", or "zero" on failure)
generate_embeddings(chunks, batch_ok, single) ==
    [i \in DOMAIN chunks |->
        [chunks[i] EXCEPT !.vector =
            IF batch_ok[BatchOf(i, EMBEDDING_BATCH_SIZE)] THEN "vec" ELSE single[i]]]

-----------------------------------------------------------------------------
(* PDFProcessor.process_single_pdf: the verdict after upload_chunks (line 86) *)

ReportsSuccessAlways(succeeded) == TRUE

ReportsSuccess(succeeded) == succeeded > 0

-----------------------------------------------------------------------------
(* PDFProcessor.process_batch, one step per collaborator call *)

Workers == {"w1", "w2"}

Modes == {"full", "metadata"}

NoText == [src |-> <<>>, lo |-> 1, hi |-> 0]

NoMetadata == [absent |-> TRUE]

CurIdle ==
    [url |-> <<>>, path |-> "-", calls |-> {}, text |-> NoText,
     metadata |-> NoMetadata, chunks |-> <<>>, embed_batch_ok |-> <<>>,
     dl |-> "-", llm |-> [absent |-> TRUE], stored |-> "-"]

NoLast ==
    [url |-> <<>>, run |-> 0, pos |-> 0, mode |-> "-", in_cosmos |-> FALSE,
     in_index |-> FALSE, path |-> "-", calls |-> {}, llm |-> [absent |-> TRUE],
     metadata |-> NoMetadata, stored |-> "-", chunk_ids |-> {}, submitted |-> 0,
     succeeded |-> 0, acked |-> {}, counted |-> {}]

ZeroResults == [total |-> 0, successful |-> 0, failed |-> 0, skipped |-> 0]

Put(f, w, v) == [f EXCEPT ![w] = v]

Bump(r, field) == [r EXCEPT ![field] = @ + 1]

RECURSIVE BumpAll(_, _)
BumpAll(r, fields) ==
    IF fields = <<>> THEN r ELSE BumpAll(Bump(r, Head(fields)), Tail(fields))

InitWorkers ==
    /\ now = 0
    /\ work = 0
    /\ pc = [w \in Workers |-> "idle"]
    /\ runs = [w \in Workers |-> 0]
    /\ mode = [w \in Workers |-> "-"]
    /\ pdfs = [w \in Workers |-> <<>>]
    /\ idx = [w \in Workers |-> 1]
    /\ existing_in_cosmos = [w \in Workers |-> {}]
    /\ indexed_in_search = [w \in Workers |-> {}]
    /\ truth = [w \in Workers |-> [cosmos |-> {}, index |-> {}]]
    /\ results = [w \in Workers |-> ZeroResults]
    /\ cur = [w \in Workers |-> CurIdle]
    /\ last = [w \in Workers |-> NoLast]
    /\ outs = [w \in Workers |-> <<>>]
    /\ hist = [w \in Workers |-> <<>>]

\* The outcomes a collaborator (blob store, Cosmos, embedding service, search
\* service) can answer with.  Faults are injected where one worker runs
\* alone; two workers side by side meet collaborators that answer normally,
\* and only the language model, whose answer is free by nature, varies.
Outcomes(all, normal) == IF Cardinality(active) = 1 THEN all ELSE {normal}

InitStores == cosmos = {} /\ index = {} /\ InitWorkers

IdleSide ==
    /\ items = <<>> /\ total_servers = 1 /\ shards = <<>>
    /\ sv = [pc |-> "-"]
    /\ gt = [pc |-> "-"]
    /\ strides = [pc |-> "-"]
    /\ pd = [pc |-> "-"]
    /\ up = [pc |-> "-"]
    /\ em = [pc |-> "-"]
    /\ ex = [pc |-> "-"]
    /\ recon = [pc |-> "-"]
    /\ rt = [pc |-> "-"]

\* One worker, running process_batch time after time
InitBatch == InitStores /\ active = {"w1"}

\* Two shards working against the same stores
InitShards == InitStores /\ active = Workers

\* main(): process_batch(pdf_urls, max_pdfs, mode); max_pdfs = 0 stands for
\* both None and 0, which the truncation treats alike.
StartRun(w) ==
    /\ w \in active
    /\ pc[w] \in {"idle", "done"}
    /\ runs[w] < MaxRuns
    /\ \E pdf_urls \in SeqsUpTo(Urls, MaxItems), max_pdfs \in 0..MaxItems, m \in Modes :
          LET pdfs_to_process == IF max_pdfs # 0 THEN Take(pdf_urls, max_pdfs) ELSE pdf_urls
          IN /\ work + Max(1, Len(pdfs_to_process)) <= MaxWork
             /\ work' = work + Max(1, Len(pdfs_to_process))
             /\ pdfs' = Put(pdfs, w, pdfs_to_process)
             /\ mode' = Put(mode, w, m)
    /\ pc' = Put(pc, w, "check")
    /\ runs' = Put(runs, w, runs[w] + 1)
    /\ idx' = Put(idx, w, 1)
    /\ results' = Put(results, w, ZeroResults)
    /\ existing_in_cosmos' = Put(existing_in_cosmos, w, {})
    /\ indexed_in_search' = Put(indexed_in_search, w, {})
    /\ outs' = Put(outs, w, <<>>)
    /\ last' = Put(last, w, NoLast)
    /\ now' = now + 1
    /\ UNCHANGED <<cosmos, index, active, truth, cur, hist>>

\* Lines 126-139: the two batch existence checks.  truth records what the
\* stores really held at that moment (history).
BatchCheck(w) ==
    /\ pc[w] = "check"
    /\ \E query_ok \in Outcomes(BOOLEAN, TRUE) :
          existing_in_cosmos' =
              Put(existing_in_cosmos, w, documents_exist_batch(pdfs[w], cosmos, query_ok))
    /\ LET r == documents_indexed_batch(pdfs[w], index)
       IN indexed_in_search' = Put(indexed_in_search, w, IF r.raised THEN {} ELSE r.value)
    /\ truth' = Put(truth, w, [cosmos |-> {d.blob_name : d \in cosmos},
                               index |-> {d.of : d \in index}])
    /\ pc' = Put(pc, w, "loop")
    /\ UNCHANGED <<cosmos, index, now, work, active, runs, mode, pdfs, idx, results,
                   cur, last, outs, hist>>

\* What is recorded when the loop moves on from an item: the counters
\* named in counted are incremented, in order.
Summary(w, c, counted, submitted, acked) ==
    [url |-> c.url, run |-> runs[w], pos |-> idx[w], mode |-> mode[w],
     in_cosmos |-> c.url \in truth[w].cosmos,
     in_index |-> c.url \in truth[w].index,
     path |-> c.path, calls |-> c.calls, llm |-> c.llm, metadata |-> c.metadata,
     stored |-> c.stored,
     chunk_ids |-> {c.chunks[i].id : i \in DOMAIN c.chunks},
     submitted |-> submitted,
     succeeded |-> Cardinality(acked),
     acked |-> acked,
     counted |-> Range(counted)]

Output(c, acked) ==
    [url |-> c.url, dl |-> c.dl, text |-> c.text, llm |-> c.llm, stored |-> c.stored,
     ids |-> [i \in DOMAIN c.chunks |-> c.chunks[i].id],
     texts |-> [i \in DOMAIN c.chunks |-> c.chunks[i].text],
     vectors |-> [i \in DOMAIN c.chunks |-> c.chunks[i].vector],
     acked |-> acked]

\* Lines 225-227: the handler logs, counts and lets the loop go on.
NextPosAbort(i, n, counted) == IF "failed" \in Range(counted) THEN n + 1 ELSE i + 1

\* Where the loop continues after an item, whatever its outcome
NextPos(i, n, counted) == i + 1

\* The item is finished: tally it and continue with the next one.
Finish(w, c, counted, submitted, acked) ==
    /\ results' = Put(results, w, BumpAll(results[w], counted))
    /\ last' = Put(last, w, Summary(w, c, counted, submitted, acked))
    /\ outs' = Put(outs, w, Append(outs[w], Output(c, acked)))
    /\ idx' = Put(idx, w, NextPos(idx[w], Len(pdfs[w]), counted))
    /\ cur' = Put(cur, w, CurIdle)
    /\ pc' = Put(pc, w, "loop")

\* Lines 147-150 and 178: the path an item takes, from the two batch checks.
PathOfSkipStored(blob_url, in_cosmos, in_search) ==
    IF blob_url \in in_cosmos THEN "skip" ELSE "full"

PathOf(blob_url, in_cosmos, in_search) ==
    IF blob_url \in in_cosmos
    THEN IF blob_url \in in_search THEN "skip" ELSE "repair"
    ELSE "full"

\* Lines 141-150: the loop head counts the item and picks its path.
NextItem(w) ==
    /\ pc[w] = "loop"
    /\ idx[w] <= Len(pdfs[w])
    /\ LET blob_url == pdfs[w][idx[w]]
           c == [CurIdle EXCEPT !.url = blob_url]
           path == PathOf(blob_url, existing_in_cosmos[w], indexed_in_search[w])
       IN IF path = "skip"
          THEN Finish(w, [c EXCEPT !.path = path], <<"total", "skipped">>, 0, {})
          ELSE /\ results' = Put(results, w, Bump(results[w], "total"))
               /\ cur' = Put(cur, w, [c EXCEPT !.path = path])
               /\ pc' = Put(pc, w, IF path = "repair" THEN "repair" ELSE "download")
               /\ UNCHANGED <<idx, last, outs>>
    /\ UNCHANGED <<cosmos, index, now, work, active, runs, mode, pdfs,
                   existing_in_cosmos, indexed_in_search, truth, hist>>

\* Lines 151-176: the repair attempt for an item found in Cosmos only.  An
\* exception (here: the missing method) is logged and the item falls through
\* to lines 178-227.
Repair(w) ==
    /\ pc[w] = "repair"
    /\ LET c == cur[w]
           r == get_document_by_blob_name(cosmos, c.url)
       IN IF r.raised \/ r.value = {}
          THEN /\ cur' = Put(cur, w, [c EXCEPT !.path = "repair_then_full"])
               /\ pc' = Put(pc, w, "download")
               /\ UNCHANGED <<index, results, idx, last, outs>>
          ELSE \E existing_doc \in r.value :
               LET chunks == chunk_batch([blob_name |-> c.url, success |-> TRUE,
                                          metadata |-> existing_doc.metadata,
                                          text |-> existing_doc.text_sample])
               IN IF chunks = <<>>
                  THEN /\ cur' = Put(cur, w, [c EXCEPT !.path = "repair_then_full"])
                       /\ pc' = Put(pc, w, "download")
                       /\ UNCHANGED <<index, results, idx, last, outs>>
                  ELSE \E batch_ok \in [1..NumBatches(Len(chunks), EMBEDDING_BATCH_SIZE) -> Outcomes(BOOLEAN, TRUE)],
                          single \in [DOMAIN chunks -> Outcomes({"vec", "zero"}, "vec")] :
                       LET embedded == generate_embeddings(chunks, batch_ok, single)
                           docs == _prepare_documents(embedded, now)
                       IN \E status \in [1..NumBatches(Len(docs), UPLOAD_BATCH_SIZE) -> Outcomes(UploadStatuses, "ok")],
                             good \in Outcomes(SUBSET {docs[i].id : i \in DOMAIN docs},
                                              {docs[i].id : i \in DOMAIN docs}) :
                          LET acked == AckedDocs(docs, status, good)
                              done == [c EXCEPT !.chunks = embedded,
                                                !.calls = {"load", "embed", "upload"}]
                          IN /\ index' = IndexUpload(index, acked)
                             /\ IF acked # {}
                                THEN Finish(w, done, <<"skipped">>, Len(docs),
                                            {d.id : d \in acked})
                                ELSE /\ cur' = Put(cur, w, [c EXCEPT !.path = "repair_then_full"])
                                     /\ pc' = Put(pc, w, "download")
                                     /\ UNCHANGED <<results, idx, last, outs>>
    /\ UNCHANGED <<cosmos, now, work, active, runs, mode, pdfs,
                   existing_in_cosmos, indexed_in_search, truth, hist>>

\* downloader.download_batch([blob_url]): an empty dict when the download
\* fails (lines 42-45 and 182-186).
Download(w) ==
    /\ pc[w] = "download"
    /\ \E ok \in Outcomes(BOOLEAN, TRUE) :
          LET c == [cur[w] EXCEPT !.calls = @ \cup {"download"},
                                  !.dl = IF ok THEN "ok" ELSE "failed"]
          IN IF ok
             THEN /\ cur' = Put(cur, w, c)
                  /\ pc' = Put(pc, w, "extract")
                  /\ UNCHANGED <<results, idx, last, outs>>
             ELSE Finish(w, c, <<"failed">>, 0, {})
    /\ UNCHANGED <<cosmos, index, now, work, active, runs, mode, pdfs,
                   existing_in_cosmos, indexed_in_search, truth, hist>>

\* text_extractor.extract_batch(local_paths): extract_text answers the
\* document's text, or a fixed error sentence when PyMuPDF fails, so the
\* dict is never empty (lines 48-51 and 188-192).
Extract(w) ==
    /\ pc[w] = "extract"
    /\ \E text \in Outcomes({FullText(cur[w].url), ErrorText}, FullText(cur[w].url)) :
          cur' = Put(cur, w, [cur[w] EXCEPT !.calls = @ \cup {"extract"}, !.text = text])
    /\ pc' = Put(pc, w, "metadata")
    /\ UNCHANGED <<cosmos, index, now, work, active, runs, mode, pdfs, idx, results,
                   existing_in_cosmos, indexed_in_search, truth, last, outs, hist>>

\* metadata_extractor.extract_batch(texts): always one entry for a
\* non-empty text (lines 54-57 and 194-198).
Metadata(w) ==
    /\ pc[w] = "metadata"
    /\ \E llm \in LlmOutcomes :
          cur' = Put(cur, w, [cur[w] EXCEPT !.calls = @ \cup {"infer"},
                                           !.llm = llm,
                                           !.metadata = extract_metadata(cur[w].text, llm, now)])
    /\ pc' = Put(pc, w, "store")
    /\ UNCHANGED <<cosmos, index, now, work, active, runs, mode, pdfs, idx, results,
                   existing_in_cosmos, indexed_in_search, truth, last, outs, hist>>

\* storage.store_document(blob_name, metadata, text[:1000]) (lines 59-71 and
\* 200-216).  In metadata mode the item is tallied here, and the clean-up of
\* the temporary file runs inside the same try block: if it raises, the
\* handler of line 225 counts the item as failed as well.
Store(w) ==
    /\ pc[w] = "store"
    /\ \E ok \in Outcomes(BOOLEAN, TRUE), cleanup_raises \in Outcomes(BOOLEAN, FALSE) :
          LET c == [cur[w] EXCEPT !.calls = @ \cup {"store"},
                                  !.stored = IF ok THEN "ok" ELSE "failed"]
              item == CosmosItem(c.url, c.metadata, TextPrefix(c.text, TEXT_SAMPLE_LEN))
              verdict == IF ok THEN <<"successful">> ELSE <<"failed">>
          IN /\ cosmos' = IF ok THEN upsert_item(cosmos, item) ELSE cosmos
             /\ IF mode[w] = "metadata"
                THEN Finish(w, c, IF cleanup_raises THEN verdict \o <<"failed">> ELSE verdict,
                            0, {})
                ELSE IF ok
                     THEN /\ cur' = Put(cur, w, c)
                          /\ pc' = Put(pc, w, "chunk")
                          /\ UNCHANGED <<results, idx, last, outs>>
                     ELSE Finish(w, c, <<"failed">>, 0, {})
    /\ UNCHANGED <<index, now, work, active, runs, mode, pdfs,
                   existing_in_cosmos, indexed_in_search, truth, hist>>

\* chunker.chunk_batch(documents) (lines 74-82)
Chunk(w) ==
    /\ pc[w] = "chunk"
    /\ LET c == cur[w]
           chunks == chunk_batch([blob_name |-> c.url, success |-> TRUE,
                                  metadata |-> c.metadata, text |-> c.text])
       IN IF chunks # <<>>
          THEN /\ cur' = Put(cur, w, [c EXCEPT !.chunks = chunks])
               /\ pc' = Put(pc, w, "embed")
               /\ UNCHANGED <<results, idx, last, outs>>
          ELSE Finish(w, c, <<"failed">>, 0, {})
    /\ UNCHANGED <<cosmos, index, now, work, active, runs, mode, pdfs,
                   existing_in_cosmos, indexed_in_search, truth, hist>>

\* embedding_generator.generate_embeddings(chunks) (line 83)
Embed(w) ==
    /\ pc[w] = "embed"
    /\ LET c == cur[w]
       IN \E batch_ok \in [1..NumBatches(Len(c.chunks), EMBEDDING_BATCH_SIZE) -> Outcomes(BOOLEAN, TRUE)],
             single \in [DOMAIN c.chunks -> Outcomes({"vec", "zero"}, "vec")] :
             cur' = Put(cur, w, [c EXCEPT !.calls = @ \cup {"embed"},
                                          !.embed_batch_ok = batch_ok,
                                          !.chunks = generate_embeddings(c.chunks, batch_ok, single)])
    /\ pc' = Put(pc, w, "upload")
    /\ UNCHANGED <<cosmos, index, now, work, active, runs, mode, pdfs, idx, results,
                   existing_in_cosmos, indexed_in_search, truth, last, outs, hist>>

\* indexer.upload_chunks(chunks_with_embeddings) and the verdict of
\* process_single_pdf (lines 84-91), tallied at lines 219-223.
Upload(w) ==
    /\ pc[w] = "upload"
    /\ LET c == [cur[w] EXCEPT !.calls = @ \cup {"upload"}]
           docs == _prepare_documents(c.chunks, now)
       IN \E status \in [1..NumBatches(Len(docs), UPLOAD_BATCH_SIZE) -> Outcomes(UploadStatuses, "ok")],
             good \in Outcomes(SUBSET {docs[i].id : i \in DOMAIN docs},
                                              {docs[i].id : i \in DOMAIN docs}) :
             LET acked == AckedDocs(docs, status, good)
                 counts == UploadCounts(docs, status, good)
             IN /\ index' = IndexUpload(index, acked)
                /\ Finish(w, c, IF ReportsSuccess(counts.succeeded)
                                THEN <<"successful">> ELSE <<"failed">>,
                          Len(docs), {d.id : d \in acked})
    /\ UNCHANGED <<cosmos, now, work, active, runs, mode, pdfs,
                   existing_in_cosmos, indexed_in_search, truth, hist>>

\* Line 230: return results.
Return(w) ==
    /\ pc[w] = "loop"
    /\ idx[w] > Len(pdfs[w])
    /\ pc' = Put(pc, w, "done")
    /\ hist' = Put(hist, w, Append(hist[w],
                 [pdfs |-> pdfs[w], mode |-> mode[w], outs |-> outs[w],
                  results |-> results[w], cosmos |-> cosmos, index |-> index]))
    /\ UNCHANGED <<cosmos, index, now, work, active, runs, mode, pdfs, idx, results,
                   existing_in_cosmos, indexed_in_search, truth, cur, last, outs>>

Next ==
    \E w \in Workers :
        \/ StartRun(w) /\ UNCHANGED sideVars
        \/ BatchCheck(w) /\ UNCHANGED sideVars
        \/ NextItem(w) /\ UNCHANGED sideVars
        \/ Repair(w) /\ UNCHANGED sideVars
        \/ Download(w) /\ UNCHANGED sideVars
        \/ Extract(w) /\ UNCHANGED sideVars
        \/ Metadata(w) /\ UNCHANGED sideVars
        \/ Store(w) /\ UNCHANGED sideVars
        \/ Chunk(w) /\ UNCHANGED sideVars
        \/ Embed(w) /\ UNCHANGED sideVars
        \/ Upload(w) /\ UNCHANGED sideVars
        \/ Return(w) /\ UNCHANGED sideVars

-----------------------------------------------------------------------------
(* divide_list: contiguous sharding of a work list *)

divide_list_no_min(its, servers, server_id) ==
    IF its = <<>> \/ servers <= 0 \/ server_id < 0 \/ server_id >= servers
    THEN <<>>
    ELSE LET chunk_size == Len(its) \div servers
             remainder == Len(its) % servers
             start_idx == server_id * chunk_size
             end_idx == start_idx + chunk_size + (IF server_id < remainder THEN 1 ELSE 0)
         IN Slice(its, start_idx, end_idx)

divide_list(its, servers, server_id) ==
    IF its = <<>> \/ servers <= 0 \/ server_id < 0 \/ server_id >= servers
    THEN <<>>
    ELSE LET chunk_size == Len(its) \div servers
             remainder == Len(its) % servers
             start_idx == server_id * chunk_size + Min(server_id, remainder)
             end_idx == start_idx + chunk_size + (IF server_id < remainder THEN 1 ELSE 0)
         IN Slice(its, start_idx, end_idx)

RECURSIVE StrideSliceDense(_, _, _)
StrideSliceDense(s, start, step) ==
    IF start >= Len(s) THEN <<>>
    ELSE <<s[start + 1]>> \o StrideSliceDense(s, start + 1, step)

\* Python's seq[start::step]
RECURSIVE StrideSlice(_, _, _)
StrideSlice(s, start, step) ==
    IF start >= Len(s) THEN <<>>
    ELSE <<s[start + 1]>> \o StrideSlice(s, start + step, step)

ListElems == {"x", "y"}

InitDivide ==
    /\ items \in SeqsUpTo(ListElems, MaxListLen)
    /\ total_servers \in 1..MaxServers
    /\ shards = <<>>
    /\ sv = [pc |-> "-"]
    /\ gt = [pc |-> "-"]
    /\ strides = <<>>
    /\ pd = [pc |-> "-"]
    /\ up = [pc |-> "-"]
    /\ em = [pc |-> "-"]
    /\ ex = [pc |-> "-"]
    /\ recon = [pc |-> "-"]
    /\ rt = [pc |-> "-"]
    /\ InitBatch

\* Server number Len(shards) takes its share of the list.
DivideShard ==
    /\ Len(shards) < total_servers
    /\ shards' = Append(shards, divide_list(items, total_servers, Len(shards)))
    /\ UNCHANGED <<items, total_servers>>

\* pipeline.py line 197: server number Len(strides) takes every
\* server_count-th document, starting at its own number.
StrideShard ==
    /\ Len(strides) < total_servers
    /\ strides' = Append(strides, StrideSlice(items, Len(strides), total_servers))
    /\ UNCHANGED <<items, total_servers>>

NextDivide ==
    \/ DivideShard /\ UNCHANGED <<batchVars, ex, recon, rt, em, up, pd, strides, gt, sv>>
    \/ StrideShard /\ UNCHANGED <<batchVars, ex, recon, rt, em, up, pd, shards, gt, sv>>

-----------------------------------------------------------------------------
(* CosmosStorage.documents_exist_batch and document_exists on one list *)

\* The i-th locator of a long work list
LongName(i) == <<"u", ToString(i)>>

LongList(n) == [i \in 1..n |-> LongName(i)]

\* The records store_document left for the documents named
StoredFor(names) ==
    {CosmosItem(n, _create_error_metadata(ErrorText, 0), ErrorText) : n \in names}

\* Documents that may be in the container: the first of the list, and the
\* two on either side of the query limit
ExCandidates ==
    {LongName(1), LongName(EXISTS_QUERY_LIMIT), LongName(EXISTS_QUERY_LIMIT + 1)}

InitExists ==
    /\ \E n \in 0..MaxUrls, stored \in SUBSET ExCandidates :
          ex = [pc |-> "batch", blob_names |-> LongList(n),
                container |-> StoredFor(stored),
                batch |-> {}, batch_ok |-> TRUE, each |-> {}, each_ok |-> TRUE]
    /\ items = <<>> /\ total_servers = 1 /\ shards = <<>>
    /\ sv = [pc |-> "-"]
    /\ gt = [pc |-> "-"]
    /\ strides = [pc |-> "-"]
    /\ pd = [pc |-> "-"]
    /\ up = [pc |-> "-"]
    /\ em = [pc |-> "-"]
    /\ recon = [pc |-> "-"]
    /\ rt = [pc |-> "-"]
    /\ InitBatch

\* existing = documents_exist_batch(blob_names)
ExistsBatch ==
    /\ ex.pc = "batch"
    /\ \E query_ok \in BOOLEAN :
          ex' = [ex EXCEPT !.pc = "each",
                           !.batch_ok = query_ok,
                           !.batch = documents_exist_batch(ex.blob_names, ex.container, query_ok)]
    /\ UNCHANGED <<batchVars, divVars, recon, rt, em, up, pd, strides, gt, sv>>

\* {name for name in blob_names if document_exists(name)}
ExistsEach ==
    /\ ex.pc = "each"
    /\ \E query_ok \in BOOLEAN :
          ex' = [ex EXCEPT !.pc = "done",
                           !.each_ok = query_ok,
                           !.each = {u \in Range(ex.blob_names) :
                                       document_exists(u, ex.container, query_ok)}]
    /\ UNCHANGED <<batchVars, divVars, recon, rt, em, up, pd, strides, gt, sv>>

NextExists == ExistsBatch \/ ExistsEach

SpecExists == InitExists /\ [][NextExists]_vars

-----------------------------------------------------------------------------
(* PDFProcessingPipeline.index_from_cosmos: which stored documents are      *)
(* taken to need indexing                                                   *)

ReconStatuses == {"absent", "stored", "indexed", "orphan"}

RECON_BATCH_SIZE == 100

\* index_from_cosmos has not returned
NoStats == [absent |-> TRUE]

Stats(total_documents, indexed_chunks) ==
    [total_documents |-> total_documents, indexed_chunks |-> indexed_chunks]

Perms(S) == {s \in [1..Cardinality(S) -> S] : Range(s) = S}

\* What the forward pass writes for locator u when the chat model answers llm
RecordOf(u, llm) ==
    CosmosItem(u, extract_metadata(FullText(u), llm, 0), TextPrefix(FullText(u), TEXT_SAMPLE_LEN))

SearchDocsOf(u, llm) ==
    LET chunks == chunk_batch([blob_name |-> u, success |-> TRUE,
                               metadata |-> extract_metadata(FullText(u), llm, 0),
                               text |-> FullText(u)])
        embedded == [i \in DOMAIN chunks |-> [chunks[i] EXCEPT !.vector = "vec"]]
    IN Range(_prepare_documents(embedded, 0))

\* The two stores, each document being absent, stored only, stored and
\* indexed, or indexed with its record deleted since (deletion is an
\* external maintenance operation).
InitRecon ==
    /\ \E st \in [Urls -> ReconStatuses], llm \in [Urls -> LlmOutcomes], order \in Perms(Urls) :
          /\ cosmos = {RecordOf(u, llm[u]) : u \in {x \in Urls : st[x] \in {"stored", "indexed"}}}
          /\ LET docs(k) == IF st[order[k]] \in {"indexed", "orphan"}
                            THEN SearchDocsOf(order[k], llm[order[k]]) ELSE {}
             IN index = IndexUpload(IndexUpload({}, docs(1)), docs(2))
    /\ \E server_count \in 1..2 : \E server_number \in 0..(server_count - 1) :
          recon = [pc |-> "query", all_documents |-> <<>>, i |-> 1,
                   documents_to_index |-> <<>>, faulted |-> FALSE,
                   server_number |-> server_number, server_count |-> server_count,
                   mine |-> <<>>, off |-> 0, batches |-> <<>>, indexed_count |-> 0,
                   stats |-> NoStats]
    /\ InitWorkers
    /\ active = {"w1"}
    /\ items = <<>> /\ total_servers = 1 /\ shards = <<>>
    /\ sv = [pc |-> "-"]
    /\ gt = [pc |-> "-"]
    /\ strides = [pc |-> "-"]
    /\ pd = [pc |-> "-"]
    /\ up = [pc |-> "-"]
    /\ em = [pc |-> "-"]
    /\ ex = [pc |-> "-"]
    /\ rt = [pc |-> "-"]

\* query_all_documents(): the documents in some order, [] when the query raises
query_all_documents(container, query_ok) ==
    IF query_ok THEN Perms(container) ELSE {<<>>}

\* Lines 176-180
ReconQuery ==
    /\ recon.pc = "query"
    /\ \E query_ok \in BOOLEAN :
       \E all_documents \in query_all_documents(cosmos, query_ok) :
          recon' = [recon EXCEPT !.all_documents = all_documents,
                                 !.faulted = ~query_ok,
                                 !.pc = IF all_documents = <<>> THEN "done" ELSE "filter",
                                 !.stats = IF all_documents = <<>> THEN Stats(0, 0) ELSE @]
    /\ UNCHANGED <<batchVars, divVars, ex, rt, em, up, pd, strides, gt, sv>>

\* Lines 183-187: one turn of the filter loop
ReconFilter ==
    /\ recon.pc = "filter"
    /\ recon.i <= Len(recon.all_documents)
    /\ \E search_ok \in BOOLEAN :
          LET doc == recon.all_documents[recon.i]
              keep == Truthy(doc.blob_name)
                      /\ ~is_document_indexed(doc.blob_name, index, search_ok)
          IN recon' = [recon EXCEPT !.i = @ + 1,
                                    !.faulted = @ \/ ~search_ok,
                                    !.documents_to_index =
                                        IF keep THEN Append(@, doc) ELSE @]
    /\ UNCHANGED <<batchVars, divVars, ex, rt, em, up, pd, strides, gt, sv>>

\* Line 190: the filter loop is over
ReconReport ==
    /\ recon.pc = "filter"
    /\ recon.i > Len(recon.all_documents)
    /\ recon' = [recon EXCEPT !.pc = "filtered"]
    /\ UNCHANGED <<batchVars, divVars, ex, rt, em, up, pd, strides, gt, sv>>

\* Lines 192-202: nothing to index, or this server's share of the documents
ReconPartition ==
    /\ recon.pc = "filtered"
    /\ recon' = IF recon.documents_to_index = <<>>
                THEN [recon EXCEPT !.pc = "done",
                                   !.stats = Stats(Len(recon.all_documents), 0)]
                ELSE [recon EXCEPT !.pc = "batch",
                                   !.mine = StrideSlice(recon.documents_to_index,
                                                        recon.server_number,
                                                        recon.server_count)]
    /\ UNCHANGED <<batchVars, divVars, ex, rt, em, up, pd, strides, gt, sv>>

\* What the download and the extraction of one document of a batch yield
FetchOutcomes == {"not_downloaded", "extracted", "unreadable"}

\* Lines 221-230: the documents of the batch that have a text
RECURSIVE ReconDocuments(_, _)
ReconDocuments(batch, fetched) ==
    IF batch = <<>> THEN <<>>
    ELSE (IF Head(fetched) = "not_downloaded" THEN <<>>
          ELSE <<[blob_name |-> Head(batch).blob_name, success |-> TRUE,
                  metadata |-> Head(batch).metadata,
                  text |-> IF Head(fetched) = "extracted"
                           THEN FullText(Head(batch).blob_name) ELSE ErrorText]>>)
         \o ReconDocuments(Tail(batch), Tail(fetched))

\* chunker.chunk_batch on a list of documents
RECURSIVE chunk_documents(_)
chunk_documents(documents) ==
    IF documents = <<>> THEN <<>>
    ELSE chunk_batch(Head(documents)) \o chunk_documents(Tail(documents))

\* Lines 204-238: one batch.  download_batch answers a dict without the
\* documents whose download failed; extract_batch builds a
\* ThreadPoolExecutor with max_workers = min(len(local_paths_dict), 8), which
\* raises ValueError on an empty dict, and nothing in index_from_cosmos
\* catches it.
ReconBatch ==
    /\ recon.pc = "batch"
    /\ recon.off < Len(recon.mine)
    /\ LET batch == Slice(recon.mine, recon.off, recon.off + RECON_BATCH_SIZE)
       IN \E fetched \in [DOMAIN batch -> FetchOutcomes] :
          IF \A k \in DOMAIN batch : fetched[k] = "not_downloaded"
          THEN /\ recon' = [recon EXCEPT !.pc = "raised",
                                         !.batches = Append(@, [fetched |-> fetched,
                                                                 calls |-> {"download", "extract"},
                                                                 uploaded |-> {}])]
               /\ UNCHANGED index
          ELSE LET chunks == chunk_documents(ReconDocuments(batch, fetched))
               IN \E batch_ok \in [1..NumBatches(Len(chunks), EMBEDDING_BATCH_SIZE) -> BOOLEAN],
                     single \in [DOMAIN chunks -> {"vec", "zero"}] :
                  LET docs == _prepare_documents(
                                  generate_embeddings(chunks, batch_ok, single), now + 1)
                  IN \E status \in [1..NumBatches(Len(docs), UPLOAD_BATCH_SIZE) -> UploadStatuses],
                        good \in SUBSET {docs[k].id : k \in DOMAIN docs} :
                     LET acked == AckedDocs(docs, status, good)
                     IN /\ index' = IF chunks = <<>> THEN index
                                     ELSE IndexUpload(index, acked)
                        /\ recon' = [recon EXCEPT
                               !.off = @ + RECON_BATCH_SIZE,
                               !.batches = Append(@, [fetched |-> fetched,
                                                      calls |-> IF chunks = <<>>
                                                                THEN {"download", "extract", "chunk"}
                                                                ELSE {"download", "extract", "chunk",
                                                                      "embed", "upload"},
                                                      uploaded |-> IF chunks = <<>> THEN {}
                                                                   ELSE acked]),
                               !.indexed_count =
                                   IF chunks = <<>> THEN @
                                   ELSE @ + UploadCounts(docs, status, good).succeeded]
    /\ UNCHANGED <<cosmos, now, work, active, pc, runs, mode, pdfs, idx,
                   existing_in_cosmos, indexed_in_search, results, cur, last, outs,
                   truth, hist, divVars, ex, rt, em, up, pd, strides, gt, sv>>

\* Lines 240-241
ReconReturn ==
    /\ recon.pc = "batch"
    /\ recon.off >= Len(recon.mine)
    /\ recon' = [recon EXCEPT !.pc = "done",
                              !.stats = Stats(Len(recon.all_documents), recon.indexed_count)]
    /\ UNCHANGED <<batchVars, divVars, ex, rt, em, up, pd, strides, gt, sv>>

NextRecon ==
    \/ ReconQuery \/ ReconFilter \/ ReconReport
    \/ ReconPartition \/ ReconBatch \/ ReconReturn

SpecRecon == InitRecon /\ [][NextRecon]_vars

\* What the pass reports: the documents it will index, the others, and no
\* document of the index without a record (nothing looks for them).
ReconNeedsIndexing == {d.blob_name : d \in Range(recon.documents_to_index)}

ReconSynced == {d.blob_name : d \in Range(recon.all_documents)} \ ReconNeedsIndexing

ReconOrphaned == {}

-----------------------------------------------------------------------------
(* The retrying wrappers: retry_with_backoff, _call_openai_with_retry,      *)
(* _upload_batch and store_document, one loop turn per step                 *)

MAX_RETRIES == 5
RETRY_DELAY == 5
BASE_DELAY == 2

Pow2Linear(n) == n + 1

RECURSIVE Pow2(_)
Pow2(n) == IF n = 0 THEN 1 ELSE 2 * Pow2(n - 1)

Wrappers == {"retry_with_backoff", "_call_openai_with_retry", "_upload_batch",
             "store_document"}

\* What one external call can answer: for the HTTP upload a status class
\* ("4xx" is 400, 401 or 403; "5xx" any other status outside 200, 201, 204),
\* a requests exception or another exception (as from response.json());
\* for upsert_item a value, a CosmosHttpResponseError or another exception,
\* for the other two a value or an exception (rate limiting included).
CallOutcomes(wrapper) ==
    IF wrapper = "_upload_batch"
    THEN {"2xx", "4xx", "5xx", "exception", "other_exception"}
    ELSE IF wrapper = "store_document"
    THEN {"ok", "cosmos_error", "exception"}
    ELSE {"ok", "error", "rate_limited"}

\* log: the outcome of every call made; slept: every delay waited; n: the
\* number of documents of the batch _upload_batch is given; answer: the pair
\* (succeeded, failed) it returns; metadata: whether store_document is given
\* a metadata dict or an empty one (None, {})
InitRetry ==
    /\ \E wrapper \in Wrappers :
       \E n \in IF wrapper = "_upload_batch" THEN 1..MaxItems ELSE {0},
          metadata \in IF wrapper = "store_document" THEN {"dict", "empty"} ELSE {"-"} :
          rt = [pc |-> "loop", wrapper |-> wrapper, attempt |-> 0,
                log |-> <<>>, slept |-> <<>>, result |-> "-",
                n |-> n, answer |-> <<>>, metadata |-> metadata]
    /\ items = <<>> /\ total_servers = 1 /\ shards = <<>>
    /\ sv = [pc |-> "-"]
    /\ gt = [pc |-> "-"]
    /\ strides = [pc |-> "-"]
    /\ pd = [pc |-> "-"]
    /\ up = [pc |-> "-"]
    /\ em = [pc |-> "-"]
    /\ ex = [pc |-> "-"]
    /\ recon = [pc |-> "-"]
    /\ InitBatch

\* utils/retry.py: for attempt in range(retries + 1)
retry_with_backoff ==
    /\ rt.pc = "loop" /\ rt.wrapper = "retry_with_backoff"
    /\ LET retries == MAX_RETRIES
       IN /\ rt.attempt \in 0..retries
          /\ \E out \in CallOutcomes(rt.wrapper) :
                LET called == [rt EXCEPT !.log = Append(@, out)]
                IN rt' = IF out = "ok"
                         THEN [called EXCEPT !.pc = "done", !.result = "returned"]
                         ELSE IF rt.attempt = retries
                         THEN [called EXCEPT !.pc = "done", !.result = "raised"]
                         ELSE [called EXCEPT !.attempt = @ + 1,
                                             !.slept = Append(@, BASE_DELAY * Pow2(rt.attempt))]
    /\ UNCHANGED <<batchVars, divVars, ex, recon, em, up, pd, strides, gt, sv>>

\* MetadataExtractor: for attempt in range(self.config.MAX_RETRIES)
_call_openai_with_retry ==
    /\ rt.pc = "loop" /\ rt.wrapper = "_call_openai_with_retry"
    /\ rt.attempt \in 0..(MAX_RETRIES - 1)
    /\ \E out \in CallOutcomes(rt.wrapper) :
          LET called == [rt EXCEPT !.log = Append(@, out)]
          IN rt' = IF out = "ok"
                   THEN [called EXCEPT !.pc = "done", !.result = "returned"]
                   ELSE IF rt.attempt < MAX_RETRIES - 1
                   THEN [called EXCEPT !.attempt = @ + 1,
                                       !.slept = Append(@, RETRY_DELAY * Pow2(rt.attempt))]
                   ELSE [called EXCEPT !.pc = "done", !.result = "raised"]
    /\ UNCHANGED <<batchVars, divVars, ex, recon, em, up, pd, strides, gt, sv>>

PermanentNever(out) == out = "other_exception"

\* Lines 305-307 and 318-320: the answers that end the loop at once
Permanent(out) == out \in {"4xx", "other_exception"}

\* SearchIndexer: for attempt in range(self.config.MAX_RETRIES); a success
\* answers the counts of the per-item statuses, a 4xx answer ends the loop at
\* once, and the exhausted loop answers (0, len(batch_docs))
_upload_batch ==
    /\ rt.pc = "loop" /\ rt.wrapper = "_upload_batch"
    /\ rt.attempt \in 0..(MAX_RETRIES - 1)
    /\ \E out \in CallOutcomes(rt.wrapper), succeeded \in 0..rt.n :
          LET called == [rt EXCEPT !.log = Append(@, out)]
              waited == IF rt.attempt < MAX_RETRIES - 1
                        THEN [called EXCEPT !.slept = Append(@, RETRY_DELAY * Pow2(rt.attempt))]
                        ELSE called
          IN rt' = IF out = "2xx"
                   THEN [called EXCEPT !.pc = "done", !.result = "returned",
                                       !.answer = <<succeeded, rt.n - succeeded>>]
                   ELSE IF Permanent(out)
                   THEN [called EXCEPT !.pc = "done", !.result = "failed",
                                       !.answer = <<0, rt.n>>]
                   ELSE IF rt.attempt = MAX_RETRIES - 1
                   THEN [waited EXCEPT !.pc = "done", !.result = "failed",
                                       !.answer = <<0, rt.n>>]
                   ELSE [waited EXCEPT !.attempt = @ + 1]
    /\ UNCHANGED <<batchVars, divVars, ex, recon, em, up, pd, strides, gt, sv>>

TransientAny(out) == out # "ok"

\* Lines 106-117: the failure of upsert_item that is tried again
Transient(out) == out = "cosmos_error"

\* CosmosStorage.store_document: False at once for empty metadata (lines
\* 81-83), else for attempt in range(self.config.MAX_RETRIES) around
\* upsert_item; any exception but CosmosHttpResponseError ends the loop, and
\* the result "returned" stands for True, "failed" for False
store_document ==
    /\ rt.pc = "loop" /\ rt.wrapper = "store_document"
    /\ rt.attempt \in 0..(MAX_RETRIES - 1)
    /\ \E out \in CallOutcomes(rt.wrapper) :
          LET called == [rt EXCEPT !.log = Append(@, out)]
          IN rt' = IF rt.metadata = "empty"
                   THEN [rt EXCEPT !.pc = "done", !.result = "failed"]
                   ELSE IF out = "ok"
                   THEN [called EXCEPT !.pc = "done", !.result = "returned"]
                   ELSE IF ~Transient(out)
                   THEN [called EXCEPT !.pc = "done", !.result = "failed"]
                   ELSE IF rt.attempt < MAX_RETRIES - 1
                   THEN [called EXCEPT !.attempt = @ + 1,
                                       !.slept = Append(@, RETRY_DELAY * Pow2(rt.attempt))]
                   ELSE [called EXCEPT !.pc = "done", !.result = "failed"]
    /\ UNCHANGED <<batchVars, divVars, ex, recon, em, up, pd, strides, gt, sv>>

NextRetry ==
    retry_with_backoff \/ _call_openai_with_retry \/ _upload_batch \/ store_document

SpecRetry == InitRetry /\ [][NextRetry]_vars

-----------------------------------------------------------------------------
(* EmbeddingGenerator.generate_embeddings, one service call per step *)

\* A text that splits into n chunks
TextOfChunks(n) ==
    [src |-> <<"long">>, lo |-> 1,
     hi |-> IF n = 0 THEN 0 ELSE CHUNK_SIZE + (n - 1) * (CHUNK_SIZE - CHUNK_OVERLAP)]

ChunksOf(n) ==
    chunk_document(TextOfChunks(n), _create_error_metadata(TextOfChunks(n), 0), <<"long">>)

\* batch_ok: the outcome of each batch call made; single: per chunk, the
\* outcome of its individual call ("-" when none was made); vec_of: per chunk,
\* the position in the list of the text its embedding was computed from (0
\* while it has none, and for a vector of zeros)
InitEmbed ==
    /\ \E n \in 0..MaxChunks :
          em = [pc |-> "batch", chunks |-> ChunksOf(n), i |-> 0, j |-> 0,
                batch_ok |-> <<>>, single |-> [k \in 1..n |-> "-"],
                vec_of |-> [k \in 1..n |-> 0]]
    /\ items = <<>> /\ total_servers = 1 /\ shards = <<>>
    /\ sv = [pc |-> "-"]
    /\ gt = [pc |-> "-"]
    /\ strides = [pc |-> "-"]
    /\ pd = [pc |-> "-"]
    /\ up = [pc |-> "-"]
    /\ ex = [pc |-> "-"]
    /\ recon = [pc |-> "-"]
    /\ rt = [pc |-> "-"]
    /\ InitBatch

\* Where the loop over the batches stands after the batch starting at i
AfterBatch(e) ==
    [e EXCEPT !.i = @ + EMBEDDING_BATCH_SIZE,
              !.pc = IF e.i + EMBEDDING_BATCH_SIZE < Len(e.chunks) THEN "batch" ELSE "done"]

_generate_individually_unset(chunk, ok) ==
    IF ok THEN [chunk EXCEPT !.vector = "vec"] ELSE chunk

_generate_individually_zero(chunk, ok) == [chunk EXCEPT !.vector = "zero"]

\* Lines 69-79: the chunk's own call, a vector of zeros when it fails
_generate_individually(chunk, ok) ==
    [chunk EXCEPT !.vector = IF ok THEN "vec" ELSE "zero"]

PairVectorsReversed(n, data) == [j \in 1..Min(Len(data), n) |-> data[Min(Len(data), n) + 1 - j]]

\* Lines 55-57: the item of response.data that the j-th chunk of a batch of
\* n chunks receives; items past the batch are left
PairVectors(n, data) == [j \in 1..Min(Len(data), n) |-> data[j]]

\* Lines 43-57: the call for chunks[i:i + batch_size]; the service answers
\* with one embedding per text, in the order of the texts (data names the
\* position of the text of each), and may be followed by one more item
EmbedBatchCall ==
    /\ em.pc = "batch"
    /\ em.i < Len(em.chunks)
    /\ \E ok \in BOOLEAN, extra \in 0..1 :
          LET last_k == Min(em.i + EMBEDDING_BATCH_SIZE, Len(em.chunks))
              data == [j \in 1..(last_k - em.i + extra) |->
                          IF j <= last_k - em.i THEN em.i + j ELSE 0]
              paired == PairVectors(last_k - em.i, data)
              called == [em EXCEPT !.batch_ok = Append(@, ok)]
          IN em' = IF ok
                   THEN AfterBatch([called EXCEPT
                            !.chunks =
                                [k \in DOMAIN em.chunks |->
                                    IF k - em.i \in DOMAIN paired
                                    THEN [em.chunks[k] EXCEPT !.vector = "vec"]
                                    ELSE em.chunks[k]],
                            !.vec_of =
                                [k \in DOMAIN em.chunks |->
                                    IF k - em.i \in DOMAIN paired
                                    THEN paired[k - em.i]
                                    ELSE em.vec_of[k]]])
                   ELSE [called EXCEPT !.pc = "individual", !.j = em.i + 1]
    /\ UNCHANGED <<batchVars, divVars, ex, recon, rt, up, pd, strides, gt, sv>>

\* Lines 59-62 and 67-79: one turn of the fallback loop over the batch
EmbedSingleCall ==
    /\ em.pc = "individual"
    /\ \E ok \in BOOLEAN :
          LET last_k == Min(em.i + EMBEDDING_BATCH_SIZE, Len(em.chunks))
              called == [em EXCEPT !.single[em.j] = IF ok THEN "vec" ELSE "zero",
                                   !.chunks[em.j] = _generate_individually(@, ok),
                                   !.vec_of[em.j] = IF ok THEN em.j ELSE 0,
                                   !.j = @ + 1]
          IN em' = IF em.j = last_k THEN AfterBatch(called) ELSE called
    /\ UNCHANGED <<batchVars, divVars, ex, recon, rt, up, pd, strides, gt, sv>>

\* Line 65: return chunks (an empty list makes no call)
EmbedReturn ==
    /\ em.pc = "batch"
    /\ em.i >= Len(em.chunks)
    /\ em' = [em EXCEPT !.pc = "done"]
    /\ UNCHANGED <<batchVars, divVars, ex, recon, rt, up, pd, strides, gt, sv>>

NextEmbed == EmbedBatchCall \/ EmbedSingleCall \/ EmbedReturn

SpecEmbed == InitEmbed /\ [][NextEmbed]_vars

-----------------------------------------------------------------------------
(* SearchIndexer.upload_chunks on one list of embedded chunks *)

EmbeddedChunksOf(n) ==
    LET chunks == ChunksOf(n)
    IN [k \in DOMAIN chunks |-> [chunks[k] EXCEPT !.vector = "vec"]]

\* Per-item answers of the index: every document good, all but the first,
\* all but the last, or none
GoodSets(ids, first, last_id) == {ids, ids \ first, ids \ last_id, {}}

\* The index holds nothing, or what an earlier upload of the first k chunks left
InitUpload ==
    /\ \E n \in 0..MaxDocs : \E k \in {0, Min(1, n), n} :
          LET chunks == EmbeddedChunksOf(n)
              docs == _prepare_documents(chunks, 1)
              ids == {docs[i].id : i \in DOMAIN docs}
          IN \E status \in [1..NumBatches(Len(docs), UPLOAD_BATCH_SIZE) -> UploadStatuses],
                good \in GoodSets(ids, {docs[i].id : i \in DOMAIN docs \cap {1}},
                                  {docs[i].id : i \in DOMAIN docs \cap {n}}) :
                up = [pc |-> "call", chunks |-> chunks, status |-> status, good |-> good,
                      before |-> Range(_prepare_documents(Take(chunks, k), 0)),
                      index |-> Range(_prepare_documents(Take(chunks, k), 0)),
                      succeeded |-> 0, failed |-> 0]
    /\ items = <<>> /\ total_servers = 1 /\ shards = <<>>
    /\ sv = [pc |-> "-"]
    /\ gt = [pc |-> "-"]
    /\ strides = [pc |-> "-"]
    /\ pd = [pc |-> "-"]
    /\ ex = [pc |-> "-"]
    /\ recon = [pc |-> "-"]
    /\ rt = [pc |-> "-"]
    /\ em = [pc |-> "-"]
    /\ InitBatch

\* Lines 144-157
upload_chunks ==
    /\ up.pc = "call"
    /\ LET docs == _prepare_documents(up.chunks, 1)
           counts == UploadCounts(docs, up.status, up.good)
       IN up' = IF up.chunks = <<>> \/ docs = <<>>
                THEN [up EXCEPT !.pc = "done"]
                ELSE [up EXCEPT !.pc = "done",
                                !.index = IndexUpload(@, AckedDocs(docs, up.status, up.good)),
                                !.succeeded = counts.succeeded,
                                !.failed = counts.failed]
    /\ UNCHANGED <<batchVars, divVars, ex, recon, rt, em, pd, strides, gt, sv>>

NextUpload == upload_chunks

SpecUpload == InitUpload /\ [][NextUpload]_vars

-----------------------------------------------------------------------------
(* storage/cosmos_client.py: the selection of documents for the next run *)

\* models/document.py, DocumentStatus
DocumentStatus ==
    {"pending", "download_failed", "ocr_failed", "metadata_failed",
     "chunking_failed", "embedding_failed", "indexed"}

FailedStatuses == DocumentStatus \ {"pending", "indexed"}

\* The status list of the query (line 78)
PendingStatuses == {"pending", "download_failed", "ocr_failed", "metadata_failed"}

\* The fields of the Document dataclass, and the keys of an item as
\* upsert_document writes it (lines 24-26 add 'id' and 'type')
DocumentFields ==
    {"pdf_id", "blob_url", "file_size_bytes", "full_text", "per_page_texts",
     "ocr_confidence", "metadata_json", "status", "processing_timestamps",
     "error_message", "created_at", "updated_at"}

ItemKeys == DocumentFields \cup {"id", "type"}

\* Document.from_dict: cls(**data) accepts the dataclass fields only
from_dict_raises(keys) == ~(keys \subseteq DocumentFields)

PendingIds == 1..MaxPending

InitPending ==
    /\ \E n \in 0..MaxPending : \E status \in [1..n -> DocumentStatus], limit \in 0..2 :
          pd = [pc |-> "call", status |-> status, limit |-> limit,
                selected |-> <<>>, raised |-> FALSE]
    /\ items = <<>> /\ total_servers = 1 /\ shards = <<>>
    /\ sv = [pc |-> "-"]
    /\ gt = [pc |-> "-"]
    /\ strides = [pc |-> "-"]
    /\ ex = [pc |-> "-"]
    /\ recon = [pc |-> "-"]
    /\ rt = [pc |-> "-"]
    /\ em = [pc |-> "-"]
    /\ up = [pc |-> "-"]
    /\ InitBatch

\* The ids the query answers, in container order
RECURSIVE QueryPending(_, _)
QueryPending(status, i) ==
    IF i > Len(status) THEN <<>>
    ELSE (IF status[i] \in PendingStatuses THEN <<i>> ELSE <<>>)
         \o QueryPending(status, i + 1)

\* Lines 74-88; limit 0 stands for None
get_pending_documents ==
    /\ pd.pc = "call"
    /\ LET found == QueryPending(pd.status, 1)
       IN pd' = IF found # <<>> /\ from_dict_raises(ItemKeys)
                THEN [pd EXCEPT !.pc = "done", !.raised = TRUE]
                ELSE [pd EXCEPT !.pc = "done",
                                !.selected = IF pd.limit # 0 THEN Take(found, pd.limit)
                                             ELSE found]
    /\ UNCHANGED <<batchVars, divVars, ex, recon, rt, em, up, strides, gt, sv>>

NextPending == get_pending_documents

SpecPending == InitPending /\ [][NextPending]_vars

-----------------------------------------------------------------------------
(* Several servers running index_from_cosmos against the same stores *)

\* Three locators that no sanitising maps to one another
ServerUrls == {<<"a", "/">>, <<"b">>, <<"c">>}

\* The servers 0 .. server_count - 1
Servers == 0..(sv.server_count - 1)

\* Every document has its record (written by a forward pass in which the
\* chat model answered no identifying field), some have their chunks in the
\* index; need: the stored documents without an indexed chunk at the start;
\* order: the order in which the container answers SELECT * FROM c
InitServers ==
    /\ \E indexed \in SUBSET ServerUrls, order \in Perms(ServerUrls),
          server_count \in 1..MaxServers :
          /\ cosmos = {RecordOf(u, LlmFail) : u \in ServerUrls}
          /\ index = UNION {SearchDocsOf(u, LlmFail) : u \in indexed}
          /\ sv = [pc |-> "run", server_count |-> server_count,
                   order |-> [k \in DOMAIN order |-> RecordOf(order[k], LlmFail)],
                   need |-> ServerUrls \ indexed,
                   at |-> [i \in 0..(server_count - 1) |-> "query"],
                   mine |-> [i \in 0..(server_count - 1) |-> <<>>]]
    /\ InitWorkers
    /\ active = {"w1"}
    /\ items = <<>> /\ total_servers = 1 /\ shards = <<>>
    /\ gt = [pc |-> "-"]
    /\ strides = [pc |-> "-"]
    /\ pd = [pc |-> "-"]
    /\ up = [pc |-> "-"]
    /\ em = [pc |-> "-"]
    /\ ex = [pc |-> "-"]
    /\ rt = [pc |-> "-"]
    /\ recon = [pc |-> "-"]

\* Lines 183-187: the documents is_document_indexed does not find
RECURSIVE NotIndexed(_, _)
NotIndexed(all_documents, idxdocs) ==
    IF all_documents = <<>> THEN <<>>
    ELSE (IF Truthy(Head(all_documents).blob_name)
             /\ ~is_document_indexed(Head(all_documents).blob_name, idxdocs, TRUE)
          THEN <<Head(all_documents)>> ELSE <<>>)
         \o NotIndexed(Tail(all_documents), idxdocs)

\* Lines 176-198 on server i: query, filter against the index as it is now,
\* and take the slice [server_number::server_count] (every query answers)
ServerPartition(i) ==
    /\ sv.pc = "run" /\ i \in Servers
    /\ sv.at[i] = "query"
    /\ LET documents_to_index == NotIndexed(sv.order, index)
           mine == StrideSlice(documents_to_index, i, sv.server_count)
       IN sv' = [sv EXCEPT !.mine[i] = mine,
                           !.at[i] = IF mine = <<>> THEN "done" ELSE "batch"]
    /\ UNCHANGED <<batchVars, divVars, ex, recon, rt, em, up, pd, strides, gt>>

\* Lines 200-241 on server i: its documents fetched, chunked, embedded and
\* uploaded (every collaborator answers, every chunk is acknowledged)
ServerIndex(i) ==
    /\ sv.pc = "run" /\ i \in Servers
    /\ sv.at[i] = "batch"
    /\ LET fetched == [k \in DOMAIN sv.mine[i] |-> "extracted"]
           chunks == chunk_documents(ReconDocuments(sv.mine[i], fetched))
           embedded == [k \in DOMAIN chunks |-> [chunks[k] EXCEPT !.vector = "vec"]]
       IN index' = IndexUpload(index, Range(_prepare_documents(embedded, now + 1)))
    /\ sv' = [sv EXCEPT !.at[i] = "done"]
    /\ UNCHANGED <<cosmos, now, work, active, pc, runs, mode, pdfs, idx,
                   existing_in_cosmos, indexed_in_search, results, cur, last, outs,
                   truth, hist, divVars, ex, recon, rt, em, up, pd, strides, gt>>

NextServers ==
    \E i \in 0..(MaxServers - 1) : ServerPartition(i) \/ ServerIndex(i)

SpecServers == InitServers /\ [][NextServers]_vars

-----------------------------------------------------------------------------
(* The quality gates and the chunkers, one call each *)

OCR_MIN_TEXT_LENGTH == 1000
OCR_MIN_CONFIDENCE == 40      \* 0.40, in hundredths
CHUNK_MIN_LENGTH == 150

\* A text seen through str.strip(): lead and trail are the lengths of its
\* leading and trailing whitespace, body the length of what strip() leaves.
Str(lead, body, trail) == [lead |-> lead, body |-> body, trail |-> trail]

StripLen(t) == t.body

_validate_ocr_results_strict(text, confidence) ==
    IF StripLen(text) <= OCR_MIN_TEXT_LENGTH THEN FALSE
    ELSE IF confidence <= OCR_MIN_CONFIDENCE THEN FALSE
    ELSE IF StripLen(text) = 0 THEN FALSE
    ELSE TRUE

\* OCRProcessor._validate_ocr_results; the confidence is in hundredths
_validate_ocr_results(text, confidence) ==
    IF StripLen(text) < OCR_MIN_TEXT_LENGTH THEN FALSE
    ELSE IF confidence < OCR_MIN_CONFIDENCE THEN FALSE
    ELSE IF StripLen(text) = 0 THEN FALSE
    ELSE TRUE

RECURSIVE KeepLong(_, _)
KeepLong(pieces, min) ==
    IF pieces = <<>> THEN <<>>
    ELSE (IF StripLen(Head(pieces)) >= min THEN <<Head(pieces)>> ELSE <<>>)
         \o KeepLong(Tail(pieces), min)

\* TextChunker.chunk_document on the pieces the splitter returned (lines
\* 36-60): short pieces are dropped, the others stripped and numbered.
text_chunker_chunk_document(pdf_id, text_chunks) ==
    LET valid_chunks == KeepLong(text_chunks, CHUNK_MIN_LENGTH)
    IN [i \in 1..Len(valid_chunks) |->
           [chunk_id |-> pdf_id \o <<"_chunk_", OrdinalToken(i - 1)>>,
            pdf_id |-> pdf_id,
            text |-> Str(0, StripLen(valid_chunks[i]), 0),
            chunk_index |-> i - 1,
            chunk_total |-> Len(valid_chunks)]]

InitGates ==
    /\ \/ \E case_name \in {<<>>, <<" ">>, <<"n">>}, case_number \in {<<>>, <<"c">>},
             court \in {<<>>, <<" ">>, <<"h">>},
             date \in {<<>>, ValidDate,
                       <<"2", "0", "2", "0", "-", "0", "2", "-", "2", "9">>,
                       <<"2", "0", "2", "1", "-", "0", "2", "-", "2", "9">>,
                       <<"2", "0", "2", "0", "-", "0", "2", "-", "3", "0">>,
                       <<"2", "0", "2", "0", "-", "1", "3", "-", "0", "1">>,
                       <<"2", "0", "2", "0", "-", "5", "-", "1">>,
                       <<"0", "1", "-", "0", "5", "-", "2", "0", "2", "0">>,
                       <<"2", "0", "2", "0", "/", "0", "5", "/", "0", "1">>,
                       <<"M", "a", "y", " ", "2", "0", "2", "0">>} :
             gt = [pc |-> "call", fn |-> "is_valid",
                   arg |-> [CaseName |-> case_name, CaseNumber |-> case_number,
                            Court |-> court, Date |-> date],
                   out |-> "-"]
       \/ \E text \in {Str(0, 5, 0), Str(1500, 0, 0), Str(0, 1200, 0), Str(0, 999, 0),
                        Str(0, 1000, 0), Str(300, 999, 300), Str(1, 1000, 1)},
             confidence \in {10, 39, 40, 50, 90} :
             gt = [pc |-> "call", fn |-> "_validate_ocr_results",
                   arg |-> [text |-> text, confidence |-> confidence], out |-> "-"]
       \/ \E n \in {0, 1, 36, 149, 150, 2500, 2501, 2650, 4800, 4801, 27800} :
             gt = [pc |-> "call", fn |-> "DocumentChunker",
                   arg |-> [src |-> <<"long">>, lo |-> 1, hi |-> n], out |-> "-"]
       \/ \E text_chunks \in SeqsUpTo({Str(0, 149, 0), Str(5, 149, 5), Str(0, 150, 0),
                                        Str(2, 800, 0)}, 3) :
             gt = [pc |-> "call", fn |-> "TextChunker", arg |-> text_chunks, out |-> "-"]
    /\ items = <<>> /\ total_servers = 1 /\ shards = <<>>
    /\ sv = [pc |-> "-"]
    /\ ex = [pc |-> "-"]
    /\ recon = [pc |-> "-"]
    /\ rt = [pc |-> "-"]
    /\ em = [pc |-> "-"]
    /\ up = [pc |-> "-"]
    /\ pd = [pc |-> "-"]
    /\ strides = [pc |-> "-"]
    /\ InitBatch

CallIsValid ==
    /\ gt.pc = "call" /\ gt.fn = "is_valid"
    /\ gt' = [gt EXCEPT !.pc = "done", !.out = is_valid(gt.arg)]

CallValidateOcr ==
    /\ gt.pc = "call" /\ gt.fn = "_validate_ocr_results"
    /\ gt' = [gt EXCEPT !.pc = "done",
                        !.out = _validate_ocr_results(gt.arg.text, gt.arg.confidence)]

CallDocumentChunker ==
    /\ gt.pc = "call" /\ gt.fn = "DocumentChunker"
    /\ gt' = [gt EXCEPT !.pc = "done",
                        !.out = chunk_document(gt.arg, _create_error_metadata(gt.arg, 0),
                                               <<"long">>)]

CallTextChunker ==
    /\ gt.pc = "call" /\ gt.fn = "TextChunker"
    /\ gt' = [gt EXCEPT !.pc = "done",
                        !.out = text_chunker_chunk_document(<<"p">>, gt.arg)]

NextGates ==
    \/ CallIsValid /\ UNCHANGED <<batchVars, divVars, ex, recon, rt, em, up, pd, strides, sv>>
    \/ CallValidateOcr /\ UNCHANGED <<batchVars, divVars, ex, recon, rt, em, up, pd, strides, sv>>
    \/ CallDocumentChunker /\ UNCHANGED <<batchVars, divVars, ex, recon, rt, em, up, pd, strides, sv>>
    \/ CallTextChunker /\ UNCHANGED <<batchVars, divVars, ex, recon, rt, em, up, pd, strides, sv>>

SpecGates == InitGates /\ [][NextGates]_vars

-----------------------------------------------------------------------------
(* Specifications *)

Init == InitBatch /\ IdleSide

Spec == Init /\ [][Next]_vars

InitTwoShards == InitShards /\ IdleSide

SpecShards == InitTwoShards /\ [][Next]_vars

SpecDivide == InitDivide /\ [][NextDivide]_vars

-----------------------------------------------------------------------------
(* Properties *)

\* An item summary is present once the worker has moved on from an item
Handled(w) == last[w].url # <<>>

\* C1: for each work item, process_batch takes exactly one of three paths
\* decided by the batch existence check: found in the metadata store and
\* present in the index, no collaborator is called and the item is counted
\* skipped; found in the metadata store only, the repair path runs (load the
\* record, chunk, embed, publish; no download, extraction or inference);
\* present in neither, the full stage sequence runs.
C1_ThreePaths ==
    \A w \in Workers :
        Handled(w) =>
            LET s == last[w]
                found == s.url \in existing_in_cosmos[w]
            IN /\ (found /\ s.in_index) => (s.calls = {} /\ "skipped" \in s.counted)
               /\ (found /\ ~s.in_index) =>
                      (s.path = "repair" /\ s.calls \subseteq {"load", "embed", "upload"})
               /\ (~s.in_cosmos /\ ~s.in_index) => s.path = "full"

\* Store contents with the time stamps blanked
SansTimeCosmos(container) ==
    {[d EXCEPT !.metadata = [@ EXCEPT !.processing_timestamp = 0]] : d \in container}

SansTimeIndex(idxdocs) == {[d EXCEPT !.created_at = 0] : d \in idxdocs}

\* Two runs over the same work list, with the same collaborator outputs
SameRun(a, b) == a.pdfs = b.pdfs /\ a.mode = b.mode /\ a.outs = b.outs

C3_SuccessOnlyIfAcked ==
    \A w \in Workers :
        (Handled(w) /\ last[w].mode = "full") =>
            LET s == last[w]
            IN /\ "successful" \in s.counted =>
                      /\ s.succeeded >= 1
                      /\ s.acked \subseteq {d.id : d \in index}
                      /\ "failed" \notin s.counted
               /\ "failed" \in s.counted => (s.acked = {} /\ s.succeeded = 0)

\* A document counted successful with one of its two chunks acknowledged
C3_Witness ==
    \E w \in Workers :
        /\ Handled(w) /\ last[w].mode = "full"
        /\ "successful" \in last[w].counted
        /\ last[w].submitted = 2
        /\ last[w].succeeded = 1

\* C4: if the metadata inference of a document fails, or the inferred
\* metadata fails the metadata gate, then no record is written for it, none of
\* its chunks is embedded or published, and the document is counted failed.
C4_InferenceFailureFails ==
    \A w \in Workers :
        (Handled(w) /\ "infer" \in last[w].calls
           /\ (last[w].llm = LlmFail \/ ~is_valid(last[w].metadata))) =>
              /\ last[w].stored # "ok"
              /\ last[w].calls \cap {"embed", "upload"} = {}
              /\ "failed" \in last[w].counted

\* One step of the worker inside process_batch
WorkerStep(w) ==
    \/ BatchCheck(w) \/ NextItem(w) \/ Repair(w) \/ Download(w) \/ Extract(w)
    \/ Metadata(w) \/ Store(w) \/ Chunk(w) \/ Embed(w) \/ Upload(w) \/ Return(w)

\* C5: process_batch always returns its counters: whatever the collaborators
\* answer, the worker can always take its next step until it returns, every
\* item of the work list is counted in total, and the items after a failing
\* item are processed as well.
C5_AlwaysCounts ==
    \A w \in Workers :
        /\ pc[w] \notin {"idle", "done"} => ENABLED WorkerStep(w)
        /\ pc[w] \in {"loop", "done"} =>
              (results[w].total = idx[w] - 1 /\ Len(outs[w]) = idx[w] - 1)
        /\ pc[w] \notin {"idle", "check", "loop", "done"} => results[w].total = idx[w]
        /\ pc[w] = "done" =>
              /\ results[w].total = Len(pdfs[w])
              /\ \A i \in DOMAIN pdfs[w] : outs[w][i].url = pdfs[w][i]

\* A returned run whose first item failed at the download and whose second
\* item was indexed
C5_Witness ==
    \E w \in Workers :
        /\ pc[w] = "done"
        /\ Len(pdfs[w]) = 2
        /\ outs[w][1].dl = "failed"
        /\ outs[w][2].acked # {}
        /\ results[w] = [total |-> 2, successful |-> 1, failed |-> 1, skipped |-> 0]

\* C6: for every list and every number of servers >= 1, the shards
\* divide_list gives servers 0 .. total_servers - 1, concatenated in server
\* order, are the list itself: contiguous ranges, each item in one shard,
\* order kept.
C6_ShardsReconstruct ==
    /\ Len(Concat(shards)) <= Len(items)
    /\ Concat(shards) = SubSeq(items, 1, Len(Concat(shards)))
    /\ Len(shards) = total_servers => Concat(shards) = items

\* Three servers have taken their shares of a four-item list
C6_Witness ==
    /\ Len(shards) = total_servers
    /\ total_servers = 3
    /\ Len(items) = 4
    /\ Len(shards[1]) = 2 /\ Len(shards[3]) = 1

\* C7: for a work list of any length and any store contents, the batch
\* existence check finds exactly the items the per-item check finds, so that
\* every item takes the same path with either.
C7_BatchAsPerItem ==
    (ex.pc = "done" /\ ex.batch_ok /\ ex.each_ok) =>
        /\ ex.batch = ex.each
        /\ \A u \in Range(ex.blob_names) : PathOf(u, ex.batch, {}) = PathOf(u, ex.each, {})

\* C8: chunking the same document (same locator, same text) twice, in the
\* same run or in different runs, gives the same chunk ids and the same chunk
\* texts, whatever else differs between the two passes.
C8_ChunkIdsStable ==
    \A w \in Workers :
        \A k1, k2 \in DOMAIN hist[w] :
            \A i \in DOMAIN hist[w][k1].outs, j \in DOMAIN hist[w][k2].outs :
                LET a == hist[w][k1].outs[i]
                    b == hist[w][k2].outs[j]
                IN (a.url = b.url /\ a.text = b.text /\ a.ids # <<>> /\ b.ids # <<>>) =>
                       (a.ids = b.ids /\ a.texts = b.texts)

\* C9: when two workers have each processed the same single item against the
\* shared stores, the stores hold what one worker alone would have left: one
\* metadata record for the locator and the chunk ids of one worker, not a
\* mixture of two chunk sets.
C9_ShardsConverge ==
    \A u \in Urls :
        (\A w \in Workers : pc[w] = "done" /\ runs[w] = 1
                            /\ pdfs[w] = <<u>> /\ mode[w] = "full") =>
            /\ Cardinality({d \in cosmos : d.blob_name = u}) = 1
            /\ \E w \in Workers : {d.id : d \in index} = last[w].chunk_ids

\* C10: the reconciliation pass reports a stored document as synced when the
\* index holds a chunk of it and as needing indexing otherwise, and reports as
\* orphaned every document the index holds chunks of without a metadata record.
C10_Classification ==
    ((recon.pc = "filtered" \/ (recon.pc = "done" /\ recon.all_documents = <<>>))
       /\ ~recon.faulted) =>
        LET stored == {d.blob_name : d \in cosmos}
            indexed == {d.of : d \in index}
        IN /\ ReconSynced = stored \cap indexed
           /\ ReconNeedsIndexing = stored \ indexed
           /\ ReconOrphaned = indexed \ stored

\* C11: a retrying wrapper calls its collaborator at most MAX_RETRIES times
\* for one logical request; when every attempt has failed it calls no more
\* and reports the failure (raises, or answers a failure) to its caller.
C11_AtMostMaxRetries ==
    rt.pc # "-" =>
        /\ Len(rt.log) <= MAX_RETRIES
        /\ (Len(rt.log) >= MAX_RETRIES /\ \A i \in DOMAIN rt.log : rt.log[i] \notin {"ok", "2xx"}) =>
               (rt.pc = "done" /\ rt.result \in {"raised", "failed"})

\* The batch of chunk k has been dealt with, fallback included
BatchSettled(k) ==
    LET b == BatchOf(k, EMBEDDING_BATCH_SIZE)
    IN b <= Len(em.batch_ok)
       /\ (em.pc = "done" \/ b < Len(em.batch_ok) \/ em.pc = "batch")

\* C12: when an embedding batch call fails, every chunk of that batch gets
\* its own call; a chunk whose own call succeeds gets its real embedding
\* whatever happens to its batch mates (a failed one gets zeros); chunks of
\* batches whose call succeeded get their embedding with no further call.
C12_BatchFallback ==
    em.pc # "-" =>
        /\ \A k \in DOMAIN em.chunks :
              BatchSettled(k) =>
                  IF em.batch_ok[BatchOf(k, EMBEDDING_BATCH_SIZE)]
                  THEN em.single[k] = "-" /\ em.chunks[k].vector = "vec"
                  ELSE em.single[k] # "-" /\ em.chunks[k].vector = em.single[k]
        /\ em.pc = "done" =>
              /\ Len(em.batch_ok) = NumBatches(Len(em.chunks), EMBEDDING_BATCH_SIZE)
              /\ em.chunks = generate_embeddings(ChunksOf(Len(em.chunks)), em.batch_ok, em.single)

\* The first batch failed, one of its chunks got its embedding and another
\* did not, and the second batch succeeded
C12_Witness ==
    /\ em.pc = "done"
    /\ Len(em.batch_ok) = 2
    /\ ~em.batch_ok[1] /\ em.batch_ok[2]
    /\ em.chunks[1].vector = "zero"
    /\ em.chunks[2].vector = "vec"
    /\ em.chunks[EMBEDDING_BATCH_SIZE + 1].vector = "vec"

\* The search documents of the call, and those the index acknowledged
UpDocs == Range(_prepare_documents(up.chunks, 1))

UpAcked == AckedDocs(_prepare_documents(up.chunks, 1), up.status, up.good)

LastOut(w) == outs[w][Len(outs[w])]

\* C14: if the text extraction of a document fails, or yields text the
\* extraction gate rejects, then the document does not go on to metadata
\* inference, nothing is stored or published for it, and it is counted
\* failed for the run.
C14_ExtractionFailureFails ==
    \A w \in Workers :
        (Handled(w) /\ outs[w] # <<>> /\ LastOut(w).url = last[w].url
           /\ "extract" \in last[w].calls /\ LastOut(w).text = ErrorText) =>
              /\ "infer" \notin last[w].calls
              /\ last[w].stored # "ok"
              /\ last[w].acked = {}
              /\ "failed" \in last[w].counted

\* The stages called for one document are a prefix of fetch, extract, infer,
\* store, chunk, embed, publish
CalledInOrder(calls) ==
    /\ "extract" \in calls => "download" \in calls
    /\ "infer" \in calls => "extract" \in calls
    /\ "store" \in calls => "infer" \in calls
    /\ "embed" \in calls => "store" \in calls
    /\ "upload" \in calls => "embed" \in calls

\* Every stage called found that the stage before it had succeeded
CalledAfterSuccess(calls, dl, text, llm, stored) ==
    /\ "extract" \in calls => dl = "ok"
    /\ "infer" \in calls => text # ErrorText
    /\ "store" \in calls => llm # LlmFail
    /\ "embed" \in calls => stored = "ok"

\* C15: for each document the stages run in the order fetch, extract, infer
\* metadata, store metadata, chunk, embed, publish, and a stage is invoked
\* only after the preceding stage of the same document returned successfully.
C15_StagesAfterSuccess ==
    \A w \in Workers :
        /\ CalledInOrder(cur[w].calls)
        /\ CalledAfterSuccess(cur[w].calls, cur[w].dl, cur[w].text, cur[w].llm,
                              cur[w].stored)
        /\ (Handled(w) /\ outs[w] # <<>> /\ LastOut(w).url = last[w].url) =>
              /\ CalledInOrder(last[w].calls)
              /\ CalledAfterSuccess(last[w].calls, LastOut(w).dl, LastOut(w).text,
                                    LastOut(w).llm, LastOut(w).stored)

\* C16: a document that ended a run in any failed state is selected for
\* processing again on the next run; only documents that are indexed are
\* treated as already done.
C16_FailedSelectedAgain ==
    (pd.pc = "done" /\ pd.limit = 0) =>
        \A d \in DOMAIN pd.status :
            /\ pd.status[d] \in FailedStatuses => d \in Range(pd.selected)
            /\ d \notin Range(pd.selected) => pd.status[d] = "indexed"

\* Nothing of the item a worker holds or has just finished was embedded or
\* uploaded
NothingIndexed(w) ==
    /\ cur[w].calls \cap {"embed", "upload"} = {}
    /\ cur[w].chunks = <<>>
    /\ Handled(w) =>
          /\ last[w].calls \cap {"embed", "upload"} = {}
          /\ last[w].chunk_ids = {}
          /\ last[w].submitted = 0
          /\ last[w].acked = {}

\* C17: in metadata-only mode no chunk is embedded or uploaded to the search
\* index for any work item, whatever the metadata store and the index held
\* before: no step of such a run changes the index, and no item reaches the
\* embedding or the upload stage.
C17_MetadataModeLeavesIndex ==
    [][\A w \in Workers :
          /\ (mode[w] = "metadata" /\ pc[w] \notin {"idle", "done"}) => index' = index
          /\ mode'[w] = "metadata" => NothingIndexed(w)']_vars

\* A metadata-only run met an item that the metadata store held and the
\* index did not, while the index held chunks of an earlier full run, and
\* stored and counted it
C17_Witness ==
    \E w \in Workers :
        /\ last[w].mode = "metadata"
        /\ last[w].run = 2
        /\ last[w].in_cosmos /\ ~(last[w].url \in indexed_in_search[w])
        /\ last[w].path = "repair_then_full"
        /\ last[w].stored = "ok"
        /\ "successful" \in last[w].counted
        /\ index # {}

\* C18: index_from_cosmos always completes and returns its statistics: it
\* never ends by raising, and a batch in which every fetch or every
\* extraction failed contributes no indexed chunk.
C18_ReconAlwaysReturns ==
    recon.pc # "-" =>
        /\ recon.pc # "raised"
        /\ recon.pc = "done" => recon.stats # NoStats
        /\ \A k \in DOMAIN recon.batches :
              (\A j \in DOMAIN recon.batches[k].fetched :
                   recon.batches[k].fetched[j] # "extracted") =>
                  recon.batches[k].uploaded = {}

\* The index records of documents that have no metadata record
OrphanRecords == {d \in index : d.of \notin {x.blob_name : x \in cosmos}}

\* C19: the reconciliation pass never deletes or rewrites a metadata record
\* and never deletes an index record: every index record it writes is a
\* chunk of a document it found to need indexing, and the records of
\* orphaned documents are left in place as they were.
C19_ReconWritesOnlyUploads ==
    [][recon.pc # "-" =>
          /\ cosmos' = cosmos
          /\ {d.id : d \in index} \subseteq {d.id : d \in index'}
          /\ \A d \in index' \ index : d.of \in ReconNeedsIndexing
          /\ OrphanRecords \subseteq index']_vars

\* The stored documents of which the index holds no chunk
StoredNotIndexed ==
    {d.blob_name : d \in cosmos} \ {d.of : d \in index}

\* C20: the reconciliation pass examines every document of the metadata
\* store, and every stored document without an indexed chunk is in the set
\* it re-indexes.
C20_FullScan ==
    (recon.pc = "filtered" /\ ~recon.faulted) =>
        /\ Range(recon.all_documents) = cosmos
        /\ recon.i = Len(recon.all_documents) + 1
        /\ StoredNotIndexed \subseteq ReconNeedsIndexing

\* C21: for an item found in the metadata store and not in the index, when
\* the repair publishes at least one chunk, no fetch, text-extraction or
\* metadata-inference call is made for that item in this run, and its stored
\* metadata record is not rewritten.
C21_RepairReusesStoredText ==
    recon.pc # "-" =>
        \A k \in DOMAIN recon.batches :
            recon.batches[k].uploaded # {} =>
                recon.batches[k].calls \cap {"download", "extract", "infer", "store"} = {}

\* C22: for every list L and every server_count S >= 1, the interleaved
\* slices L[i::S], i = 0..S-1, are pairwise disjoint and together hold every
\* element of L exactly once: slice i holds the positions i, i+S, i+2S, ...
\* of L in order, and the slice lengths add up to the length of L.
C22_StridesPartition ==
    /\ \A i \in DOMAIN strides :
          /\ Len(strides[i]) = (Len(items) + total_servers - i) \div total_servers
          /\ \A k \in DOMAIN strides[i] :
                strides[i][k] = items[(i - 1) + (k - 1) * total_servers + 1]
    /\ Len(strides) = total_servers =>
          /\ Len(Concat(strides)) = Len(items)
          /\ \A p \in DOMAIN items :
                items[p] = strides[((p - 1) % total_servers) + 1]
                                  [((p - 1) \div total_servers) + 1]

\* Three servers have taken their interleaved slices of a four-item list
C22_Witness ==
    /\ Len(strides) = total_servers
    /\ total_servers = 3
    /\ items = <<"x", "y", "y", "x">>
    /\ strides[1] = <<"x", "x">> /\ strides[2] = <<"y">> /\ strides[3] = <<"y">>

\* The size and the start offset of shard server_id, as the claim gives them
ShardSize(n, servers, server_id) ==
    (n \div servers) + (IF server_id < n % servers THEN 1 ELSE 0)

ShardStart(n, servers, server_id) ==
    server_id * (n \div servers) + Min(server_id, n % servers)

\* C29: divide_list(items, S, i) with 0 <= i < S is exactly
\* items[start : start + size], with base = N div S, remainder = N mod S,
\* size = base + (1 if i < remainder else 0) and
\* start = i * base + min(i, remainder); the sizes of any two shards differ
\* by at most one.
C29_ShardBounds ==
    /\ \A s \in DOMAIN shards :
          LET size == ShardSize(Len(items), total_servers, s - 1)
              start == ShardStart(Len(items), total_servers, s - 1)
          IN /\ Len(shards[s]) = size
             /\ shards[s] = SubSeq(items, start + 1, start + size)
    /\ \A s, t \in DOMAIN shards :
          Len(shards[s]) - Len(shards[t]) \in {-1, 0, 1}

\* Three servers have shared a four-item list: shard 1 starts at offset 2
C29_Witness ==
    /\ Len(shards) = 3
    /\ total_servers = 3
    /\ items = <<"x", "x", "y", "x">>
    /\ shards[2] = <<"y">> /\ shards[3] = <<"x">>

\* C23: for every chunk emitted for a document, 0 <= ordinal < total, total
\* is the number of chunks emitted for the document, and the ordinals are
\* 0 .. total - 1, each used once, in emission order.
C23_OrdinalsContiguous ==
    (gt.pc = "done" /\ gt.fn \in {"DocumentChunker", "TextChunker"}) =>
        \A k \in DOMAIN gt.out :
            LET ordinal == IF gt.fn = "DocumentChunker" THEN gt.out[k].chunk_id
                           ELSE gt.out[k].chunk_index
            IN /\ ordinal = k - 1
               /\ 0 <= ordinal /\ ordinal < gt.out[k].chunk_total
               /\ gt.out[k].chunk_total = Len(gt.out)

\* The chunker of the pipeline has cut a text into twelve chunks
C23_Witness ==
    /\ gt.pc = "done" /\ gt.fn = "DocumentChunker"
    /\ Len(gt.out) = 12
    /\ gt.out[12].chunk_id = 11

\* C25: the extraction gate rejects exactly when the trimmed text is shorter
\* than MIN_TEXT_LENGTH or the confidence is below MIN_CONFIDENCE; with the
\* thresholds 1000 and 0.4, ("short", 0.9) and (1500 spaces, 0.1) are
\* rejected, (1200 non-blank characters, 0.5) is accepted, and values
\* exactly at a threshold are accepted.
C25_ExtractionGate ==
    (gt.pc = "done" /\ gt.fn = "_validate_ocr_results") =>
        /\ gt.out = ~(StripLen(gt.arg.text) < 1000 \/ gt.arg.confidence < 40)
        /\ gt.arg = [text |-> Str(0, 5, 0), confidence |-> 90] => gt.out = FALSE
        /\ gt.arg = [text |-> Str(1500, 0, 0), confidence |-> 10] => gt.out = FALSE
        /\ gt.arg = [text |-> Str(0, 1200, 0), confidence |-> 50] => gt.out = TRUE
        /\ gt.arg = [text |-> Str(0, 1000, 0), confidence |-> 40] => gt.out = TRUE

\* A text of exactly 1000 characters between blanks, at confidence 0.40,
\* has passed the gate
C25_Witness ==
    /\ gt.pc = "done" /\ gt.fn = "_validate_ocr_results"
    /\ gt.arg = [text |-> Str(1, 1000, 1), confidence |-> 40]
    /\ gt.out = TRUE

\* The dates of the sample that name a day of the calendar as year-month-day
\* (strptime reads a month or a day of one digit as well)
CalendarDates ==
    {ValidDate,
     <<"2", "0", "2", "0", "-", "0", "2", "-", "2", "9">>,
     <<"2", "0", "2", "0", "-", "5", "-", "1">>}

C24_NoShortChunkPublished ==
    \A d \in index : TextLength(d.content) >= CHUNK_MIN_LENGTH

\* C27: embedding keeps order and length: the j-th chunk of a batch receives
\* the j-th vector of the batch's response, every chunk of the list ends with
\* a vector, and generate_embeddings returns the chunks in the order it was
\* given them.
C27_EmbeddingKeepsOrder ==
    em.pc # "-" =>
        /\ \A k \in DOMAIN em.chunks :
              BatchSettled(k) =>
                  /\ em.chunks[k].vector # "none"
                  /\ em.batch_ok[BatchOf(k, EMBEDDING_BATCH_SIZE)] => em.vec_of[k] = k
        /\ em.pc = "done" =>
              [k \in DOMAIN em.chunks |-> [em.chunks[k] EXCEPT !.vector = "none"]]
                  = ChunksOf(Len(em.chunks))

\* Twelve chunks embedded by two batch calls, of ten and of two
C27_Witness ==
    /\ em.pc = "done"
    /\ em.batch_ok = <<TRUE, TRUE>>
    /\ Len(em.chunks) = 12
    /\ em.vec_of[10] = 10 /\ em.vec_of[12] = 12

\* C28: before the k-th retry of a call (k = 0 for the first retry) the
\* wrapper waits baseDelay * 2^k, so successive waits double, and no wait is
\* performed after the final failed attempt.
C28_BackoffDoubles ==
    rt.pc # "-" =>
        LET baseDelay == IF rt.wrapper = "retry_with_backoff" THEN BASE_DELAY
                         ELSE RETRY_DELAY
        IN /\ \A k \in DOMAIN rt.slept : rt.slept[k] = baseDelay * 2^(k - 1)
           /\ \A k \in 1..(Len(rt.slept) - 1) : rt.slept[k + 1] = 2 * rt.slept[k]
           /\ Len(rt.slept) = IF rt.pc = "done" /\ rt.log # <<>> THEN Len(rt.log) - 1
                              ELSE Len(rt.log)

\* store_document has given up after five refused writes and four waits
C28_Witness ==
    /\ rt.pc = "done" /\ rt.wrapper = "store_document"
    /\ rt.result = "failed"
    /\ Len(rt.log) = 5
    /\ rt.slept = <<5, 10, 20, 40>>

\* C30: after process_batch has handled any number of items,
\* total = successful + failed + skipped: every item is tallied under exactly
\* one outcome, also when an exception is raised part-way through an item
\* (as in the clean-up of the temporary file after the item was counted).
C30_TallyAddsUp ==
    \A w \in Workers :
        pc[w] \in {"loop", "done"} =>
            results[w].total
                = results[w].successful + results[w].failed + results[w].skipped

\* C31: chunks of two different documents (different locators) never
\* receive the same chunk id, so publishing the chunks of one document never
\* overwrites chunks of another document in the index.
C31_ChunkIdsPerDocument ==
    \A w \in Workers :
        \A i, j \in DOMAIN outs[w] :
            outs[w][i].url # outs[w][j].url =>
                Range(outs[w][i].ids) \cap Range(outs[w][j].ids) = {}

\* C32: once at least one chunk of a document has been published,
\* is_document_indexed(blob_name) answers true for that document, so that a
\* reconciliation pass that follows at once over unchanged stores does not
\* list the document as needing indexing and uploads nothing for it.
C32_PublishedIsIndexed ==
    \A w \in Workers :
        (Handled(w) /\ last[w].acked # {}) =>
            is_document_indexed(last[w].url, index, TRUE)

\* C33: the repair path of process_batch (item in the metadata store but
\* not indexed) publishes chunks with the same ids, the same contents and the
\* same chunk totals as the full path publishes for the same document with
\* unchanged text.
C33_RepairPublishesAsFull ==
    \A w \in Workers :
        (Handled(w) /\ last[w].path \in {"repair", "repair_then_full"}
                    /\ last[w].acked # {}) =>
            \A k \in DOMAIN hist[w] :
                \A i \in DOMAIN hist[w][k].outs :
                    LET a == hist[w][k].outs[i]
                        b == outs[w][Len(outs[w])]
                    IN (k < last[w].run /\ a.url = b.url /\ a.stored = "ok"
                          /\ a.ids # <<>> /\ b.text \in {NoText, a.text}) =>
                           (b.ids = a.ids /\ b.texts = a.texts)

\* C34: if the batch index check raises, process_batch falls back to
\* per-document index checks, so an item that is present in both the metadata
\* store and the index is still skipped without any collaborator call.
C34_FallbackStillSkips ==
    \A w \in Workers :
        (/\ Handled(w)
         /\ documents_indexed_batch(pdfs[w], index).raised
         /\ last[w].url \in existing_in_cosmos[w]
         /\ last[w].in_cosmos /\ last[w].in_index) =>
            (last[w].calls = {} /\ last[w].counted = {"skipped"})

\* C35: an item on the repair path (found in the metadata store, not found
\* indexed) is counted skipped exactly when the repair published at least
\* one chunk; in every other case (stored record unreadable, no chunks, no
\* chunk published, or an exception) it falls through to the full stage
\* sequence in the same run and is counted successful or failed instead.
C35_RepairSkipsOrFallsThrough ==
    \A w \in Workers :
        (/\ Handled(w)
         /\ last[w].url \in existing_in_cosmos[w]
         /\ last[w].url \notin indexed_in_search[w]) =>
            LET s == last[w]
            IN /\ "skipped" \in s.counted <=> (s.path = "repair" /\ s.acked # {})
               /\ "skipped" \notin s.counted =>
                      /\ s.path = "repair_then_full"
                      /\ "download" \in s.calls
                      /\ s.counted # {}
                      /\ s.counted \subseteq {"successful", "failed"}

\* The repair attempt of a stored item raised, and the item went through the
\* full stage sequence in the same run and was counted successful
C35_Witness ==
    \E w \in Workers :
        /\ Handled(w)
        /\ last[w].url \in existing_in_cosmos[w]
        /\ last[w].path = "repair_then_full"
        /\ last[w].calls = {"download", "extract", "infer", "store", "embed", "upload"}
        /\ last[w].acked # {}
        /\ last[w].counted = {"successful"}

\* C36: after generate_embeddings returns, every input chunk carries a
\* vector: a chunk whose batch call and whose own call both failed carries
\* the vector of 1536 zeros, and it is passed on to the upload like the
\* others, neither marked failed nor dropped.
C36_EveryChunkHasVector ==
    em.pc = "done" =>
        /\ \A k \in DOMAIN em.chunks :
              /\ em.chunks[k].vector \in {"vec", "zero"}
              /\ (~em.batch_ok[BatchOf(k, EMBEDDING_BATCH_SIZE)] /\ em.single[k] = "zero") =>
                     em.chunks[k].vector = "zero"
        /\ LET docs == _prepare_documents(em.chunks, 0)
           IN /\ Len(docs) = Len(em.chunks)
              /\ \A k \in DOMAIN docs :
                    /\ docs[k].id = em.chunks[k].id
                    /\ docs[k].content_vector = em.chunks[k].vector

\* Eleven chunks, the first batch call failed, and so did the own call of
\* the third chunk
C36_Witness ==
    /\ em.pc = "done"
    /\ Len(em.chunks) = 11
    /\ em.batch_ok = <<FALSE, TRUE>>
    /\ em.single[3] = "zero" /\ em.single[4] = "vec"
    /\ em.chunks[3].vector = "zero"
    /\ _prepare_documents(em.chunks, 0)[3].content_vector = "zero"

\* C37: _upload_batch never raises and classifies failures: a 400, 401 or
\* 403 response ends the batch at once with every record counted failed and
\* no further request; any other non-success response or request exception
\* is retried; after MAX_RETRIES failed attempts every record of the batch
\* is counted failed and none succeeded.
C37_UploadBatchClassifies ==
    (rt.pc # "-" /\ rt.wrapper = "_upload_batch") =>
        /\ rt.result # "raised"
        /\ Len(rt.log) <= MAX_RETRIES
        /\ rt.pc = "done" => rt.answer \in {<<k, rt.n - k>> : k \in 0..rt.n}
        /\ \A i \in DOMAIN rt.log :
              /\ rt.log[i] = "4xx" =>
                     (i = Len(rt.log) /\ rt.pc = "done" /\ rt.answer = <<0, rt.n>>)
              /\ (rt.log[i] \in {"5xx", "exception"} /\ i < MAX_RETRIES) =>
                     (i < Len(rt.log) \/ rt.pc = "loop")
        /\ (Len(rt.log) = MAX_RETRIES
              /\ \A i \in DOMAIN rt.log : rt.log[i] \in {"5xx", "exception"}) =>
               (rt.pc = "done" /\ rt.answer = <<0, rt.n>>)

\* A batch of two refused with 403 at the third request, after a server
\* error and a connection error
C37_Witness ==
    /\ rt.pc = "done" /\ rt.wrapper = "_upload_batch"
    /\ rt.log = <<"5xx", "exception", "4xx">>
    /\ rt.n = 2
    /\ rt.answer = <<0, 2>>

\* C38: when several servers run index_from_cosmos at the same time with
\* server_number = 0 .. server_count - 1 against the same stores, every
\* document that needs indexing is assigned to exactly one server, although
\* each server builds and filters its own list against the live index
\* before it takes the slice [server_number::server_count].
C38_OneServerPerDocument ==
    (sv.pc = "run" /\ \A i \in Servers : sv.at[i] # "query") =>
        \A u \in sv.need :
            Cardinality({i \in Servers :
                            \E k \in DOMAIN sv.mine[i] : sv.mine[i][k].blob_name = u}) = 1

\* C39: store_document never raises and returns True only if an upsert was
\* accepted by the store: it makes at most MAX_RETRIES upsert attempts on
\* Cosmos HTTP errors, makes no further attempt after any other exception,
\* and returns False for empty metadata without calling the store at all.
C39_StoreDocumentContract ==
    (rt.pc # "-" /\ rt.wrapper = "store_document") =>
        /\ rt.result # "raised"
        /\ Len(rt.log) <= MAX_RETRIES
        /\ rt.result = "returned" =>
               (rt.log # <<>> /\ rt.log[Len(rt.log)] = "ok")
        /\ \A i \in DOMAIN rt.log :
              /\ i < Len(rt.log) => rt.log[i] = "cosmos_error"
              /\ rt.log[i] = "exception" => (rt.pc = "done" /\ rt.result = "failed")
        /\ rt.metadata = "empty" =>
               (rt.log = <<>> /\ (rt.pc = "done" => rt.result = "failed"))
        /\ (Len(rt.log) = MAX_RETRIES /\ rt.log[MAX_RETRIES] # "ok") =>
               (rt.pc = "done" /\ rt.result = "failed")

\* Two refused writes, then an exception of another kind: False after three
\* attempts
C39_Witness ==
    /\ rt.pc = "done" /\ rt.wrapper = "store_document"
    /\ rt.metadata = "dict"
    /\ rt.log = <<"cosmos_error", "cosmos_error", "exception">>
    /\ rt.result = "failed"

=============================================================================
